---------------------------- MODULE Spec2Model ----------------------------
(***************************************************************************)
(* A model of the ingestion pipeline of MarketEngine: the cache-fronted,   *)
(* retrying fetch layer (market_engine/common.py, main.py,                 *)
(* modules/MarketAPI.py), the manifest stream repair decoder               *)
(* (market_engine/modules/API/ManifestAPI.py) and the aggregation run that *)
(* writes the per-date artifacts (main.py).                                *)
(*                                                                         *)
(* Each part has its own next-state relation and specification; the        *)
(* variables of the other parts keep their initial value.                  *)
(***************************************************************************)
EXTENDS Integers, Sequences, FiniteSets, TLC

VARIABLES
    cache,      \* the Redis db: key |-> stored text
    stored,     \* history: key |-> the fetch_api_data call that stored it
    calls,      \* the fetch_api_data call in flight of each task
    started,    \* the number of fetch_api_data calls made so far
    byt,        \* fix: the manifest bytes
    length,     \* fix: the candidate length of the trim loop
    fixpc,      \* fix: where the call is
    fixret,     \* fix: what it returned
    translation_dict,   \* translation_dict.json
    artifacts,          \* the output directory: date |-> price history file
    mirrored,           \* whether the mirror's files were downloaded
    runNo,              \* the number of fetch runs started
    runsCompleted,      \* the number of fetch runs that ran to their end
    runpc,              \* where the fetch run is
    item_ids,           \* the run's item_ids
    tasks,              \* gather: the state of each item's coroutine
    price_history_dict, \* the run's price_history_dict
    ingestpc,           \* fetch_statistics_from_relics_run: where it is
    ingestNo,           \* the number of mirror ingestions started
    ingest,             \* its arguments: item_ids and which fix_names_and_add_ids
    date_list,          \* the dates whose fetch_data has not run yet
    idCalls,            \* the calls of get_item_id so far: name, item_ids, result
    utcoffset,          \* the host's offset from UTC, in hours
    item_statistics,    \* the committed rows of table item_statistics
    item_subtypes,      \* the committed rows of table item_subtypes
    item_mod_ranks,     \* the committed rows of table item_mod_ranks
    tx,                 \* the rows of the connection's open transaction
    loadpc,             \* where the loader run of main is
    loadNo,             \* the number of loader runs started
    load,               \* the loader run's locals
    db,                 \* the committed rows of tables items, item_aliases, word_aliases
    connection,         \* the rows the instance's connection sees
    all_items,          \* self.all_items of the MarketDatabase instance
    module,             \* the module the instance's class is of
    returned,           \* the last call on the instance and what it returned
    resolveNo,          \* the number of calls that changed the instance or the store
    obj,                \* MarketItem.create: the item under construction
    createNo            \* the number of MarketItem.create calls so far

fetchVars == <<cache, stored, calls, started>>
decodeVars == <<byt, length, fixpc, fixret>>
runVars == <<translation_dict, artifacts, mirrored, runNo, runsCompleted, runpc,
             item_ids, tasks, price_history_dict>>

ingestVars == <<ingestpc, ingestNo, ingest, date_list, idCalls>>

loadVars == <<utcoffset, item_statistics, item_subtypes, item_mod_ranks, tx,
              loadpc, loadNo, load>>

resolveVars == <<db, connection, all_items, module, returned, resolveNo>>

createVars == <<obj, createNo>>

vars == <<fetchVars, decodeVars, runVars, ingestVars, loadVars, resolveVars,
          createVars>>

\* a step of one part leaves the other parts alone
FetchStep == UNCHANGED <<decodeVars, runVars, ingestVars, loadVars, resolveVars,
    createVars>>
DecodeStep == UNCHANGED <<fetchVars, runVars, ingestVars, loadVars, resolveVars,
    createVars>>
RunStep == UNCHANGED <<fetchVars, decodeVars, ingestVars, loadVars, resolveVars,
    createVars>>
IngestStep == UNCHANGED <<fetchVars, decodeVars, loadVars, resolveVars,
    createVars>>
LoadStep == UNCHANGED <<fetchVars, decodeVars, runVars, ingestVars, resolveVars,
    createVars>>
ResolveStep == UNCHANGED <<fetchVars, decodeVars, runVars, ingestVars, loadVars,
    createVars>>
CreateStep == UNCHANGED <<fetchVars, decodeVars, runVars, ingestVars, loadVars,
    resolveVars>>

(***************************************************************************)
(* Bounds of the model.                                                    *)
(***************************************************************************)
MaxCalls == 3
MaxLegacyAttempts == 7
MaxBuf == 5
MaxTrimBuf == 4
MaxRuns == 2
MaxIngests == 2
MaxLoads == 2
\* batch_size of insert_item_statistics, scaled down from 10_000
batch_size == 3
MaxResolveOps == 2
MaxCreates == 2

\* two concurrent callers: enough for two calls to race on one cache key
Tasks == {"t1", "t2"}

(***************************************************************************)
(* Values.  Python values are written as text so that a parsed JSON        *)
(* document, its json.dumps text, its str() text and the bytes Redis       *)
(* returns are four different values.                                      *)
(***************************************************************************)
None == "None"

\* the request URLs; the second is the first followed by "#{}"
Urls == {"/items", "/items#{}"}

\* headers=None, or the dict fetch_item_statistics builds
NoHeaders == "None"
PlatformHeaders == "{'platform': 'pc', 'language': 'en'}"
Headers == {NoHeaders, PlatformHeaders}

\* the JSON document the remote serves for url (res.json())
JsonOf(url) == "json<" \o url \o ">"
JsonDocs == {JsonOf(u) : u \in Urls}

\* str(data): the Python repr of the parsed document
PyStr(data) == "str(" \o data \o ")"

\* json.dumps(data)
json_dumps(data) == "dumps(" \o data \o ")"

\* what redis-py returns for a stored text: its bytes
Bytes(text) == "b'" \o text \o "'"

JSONDecodeError == "JSONDecodeError"

\* json.loads(data): the document whose JSON text this is, or an error
json_loads(data) ==
    IF \E d \in JsonDocs : data = Bytes(json_dumps(d))
    THEN CHOOSE d \in JsonDocs : data = Bytes(json_dumps(d))
    ELSE JSONDecodeError

\* f"{headers}" after `if headers is None: headers = {}`
HeaderStr(headers) == IF headers = NoHeaders THEN "{}" ELSE headers

StoreKeyUrlOnly(url, headers) == url

\* the key fetch_api_data stores under: f"{url}#{headers}"
StoreKey(url, headers) == url \o "#" \o HeaderStr(headers)

(***************************************************************************)
(* market_engine/common.py: the cache functions.  cacheArg is TRUE when a  *)
(* Redis instance was passed, FALSE for cache=None.                        *)
(***************************************************************************)
get_cached_data(cacheArg, url) ==
    IF ~cacheArg THEN None
    ELSE IF url \in DOMAIN cache THEN Bytes(cache[url])
    ELSE None

set_cached_data(cacheArg, cache_key, data) ==
    IF ~cacheArg THEN cache
    ELSE [k \in DOMAIN cache \cup {cache_key} |->
             IF k = cache_key THEN data ELSE cache[k]]

\* the history of the stores, kept beside the cache
Remember(cacheArg, cache_key, entry) ==
    IF ~cacheArg THEN stored
    ELSE [k \in DOMAIN stored \cup {cache_key} |->
             IF k = cache_key THEN entry ELSE stored[k]]

\* @retry(stop=stop_after_attempt(5), wait=wait_fixed(1))
MaxAttemptNumber == 5
WaitFixed == 1

stop_after_attempt_off_by_one(attempt_number) == attempt_number > MaxAttemptNumber

stop_after_attempt(attempt_number) == attempt_number >= MaxAttemptNumber

IdleCall ==
    [variant |-> "none", pc |-> "idle", url |-> None, headers |-> NoHeaders,
     cacheArg |-> FALSE, limiterArg |-> FALSE, attempts |-> 0, fails |-> 0,
     acquires |-> 0, waits |-> <<>>, ret |-> None, hit |-> FALSE,
     origin |-> None, afterStored |-> FALSE]

\* a fetch of (url, headers) by this variant completed, stored its payload,
\* and the entry has not expired
StoredLive(variant, url, headers) ==
    \E k \in DOMAIN stored :
        /\ stored[k].variant = variant
        /\ stored[k].url = url
        /\ stored[k].headers = headers

(***************************************************************************)
(* market_engine/common.py fetch_api_data, lines 111-118: the cache        *)
(* lookup and, on a miss, the way to the request.                          *)
(***************************************************************************)
fetch_api_data(t, url, headers, cacheArg, limiterArg) ==
    /\ calls[t].pc = "idle"
    /\ started < MaxCalls
    /\ started' = started + 1
    /\ LET data == get_cached_data(cacheArg, url)
           c0 == [IdleCall EXCEPT !.variant = "common", !.url = url,
                     !.headers = headers, !.cacheArg = cacheArg,
                     !.limiterArg = limiterArg,
                     !.afterStored = cacheArg /\ StoredLive("common", url, headers)]
       IN  calls' = [calls EXCEPT ![t] =
               IF data # None
               THEN [c0 EXCEPT !.pc = "done", !.ret = data, !.hit = TRUE,
                               !.origin = stored[url].ret]
               ELSE IF limiterArg
               THEN [c0 EXCEPT !.pc = "acquire"]
               ELSE [c0 EXCEPT !.pc = "request"]]
    /\ UNCHANGED <<cache, stored>>
    /\ FetchStep

\* await rate_limiter.acquire()
acquire(t) ==
    /\ calls[t].pc = "acquire"
    /\ calls' = [calls EXCEPT ![t].pc = "request", ![t].acquires = @ + 1]
    /\ UNCHANGED <<cache, stored, started>>
    /\ FetchStep

\* one attempt of make_request that succeeds: lines 122-125, then 131-133
make_request_ok(t) ==
    /\ calls[t].pc = "request"
    /\ calls[t].variant = "common"
    /\ LET c == calls[t]
           data == JsonOf(c.url)
           key == StoreKey(c.url, c.headers)
       IN  /\ cache' = set_cached_data(c.cacheArg, key, PyStr(data))
           /\ stored' = Remember(c.cacheArg, key,
                           [variant |-> "common", url |-> c.url,
                            headers |-> c.headers, ret |-> data])
           /\ calls' = [calls EXCEPT ![t].pc = "done", ![t].ret = data,
                                     ![t].attempts = @ + 1]
    /\ UNCHANGED started
    /\ FetchStep

\* one attempt that raises (raise_for_status, or a transport error); tenacity
\* stops after the 5th attempt and raises RetryError, else waits
make_request_error(t) ==
    /\ calls[t].pc = "request"
    /\ calls[t].variant = "common"
    /\ LET n == calls[t].attempts + 1
       IN  calls' = [calls EXCEPT ![t].attempts = n, ![t].fails = @ + 1,
                        ![t].pc = IF stop_after_attempt(n) THEN "failed" ELSE "wait"]
    /\ UNCHANGED <<cache, stored, started>>
    /\ FetchStep

\* wait_fixed(1) between two attempts
wait_fixed(t) ==
    /\ calls[t].pc = "wait"
    /\ calls[t].variant = "common"
    /\ calls' = [calls EXCEPT ![t].pc = "request",
                              ![t].waits = Append(@, WaitFixed)]
    /\ UNCHANGED <<cache, stored, started>>
    /\ FetchStep

(***************************************************************************)
(* main.py fetch_api_data, lines 55-73: the same Redis db (localhost:6379, *)
(* db 0), the key is the url, the text is json.dumps, no retry.            *)
(***************************************************************************)
main_fetch_api_data(t, url) ==
    /\ calls[t].pc = "idle"
    /\ started < MaxCalls
    /\ started' = started + 1
    /\ LET c0 == [IdleCall EXCEPT !.variant = "main", !.url = url,
                     !.cacheArg = TRUE, !.limiterArg = TRUE,
                     !.afterStored = StoredLive("main", url, NoHeaders)]
       IN  calls' = [calls EXCEPT ![t] =
               IF url \in DOMAIN cache
               THEN LET v == json_loads(Bytes(cache[url]))
                    IN  IF v = JSONDecodeError
                        THEN [c0 EXCEPT !.pc = "failed", !.hit = TRUE]
                        ELSE [c0 EXCEPT !.pc = "done", !.ret = v, !.hit = TRUE,
                                       !.origin = stored[url].ret]
               ELSE [c0 EXCEPT !.pc = "acquire"]]
    /\ UNCHANGED <<cache, stored>>
    /\ FetchStep

main_request_ok(t) ==
    /\ calls[t].pc = "request"
    /\ calls[t].variant = "main"
    /\ LET c == calls[t]
           data == JsonOf(c.url)
       IN  /\ cache' = set_cached_data(TRUE, c.url, json_dumps(data))
           /\ stored' = Remember(TRUE, c.url,
                           [variant |-> "main", url |-> c.url,
                            headers |-> NoHeaders, ret |-> data])
           /\ calls' = [calls EXCEPT ![t].pc = "done", ![t].ret = data,
                                     ![t].attempts = @ + 1]
    /\ UNCHANGED started
    /\ FetchStep

\* response.raise_for_status() raises and nothing catches it
main_request_error(t) ==
    /\ calls[t].pc = "request"
    /\ calls[t].variant = "main"
    /\ calls' = [calls EXCEPT ![t].pc = "failed", ![t].attempts = @ + 1,
                              ![t].fails = @ + 1]
    /\ UNCHANGED <<cache, stored, started>>
    /\ FetchStep

\* the caller takes the result (or the exception); the task is free again
finish(t) ==
    /\ calls[t].pc \in {"done", "failed"}
    /\ calls' = [calls EXCEPT ![t] = IdleCall]
    /\ UNCHANGED <<cache, stored, started>>
    /\ FetchStep

\* Redis drops an entry when its `ex` seconds have passed
expire(k) ==
    /\ k \in DOMAIN cache
    /\ cache' = [x \in DOMAIN cache \ {k} |-> cache[x]]
    /\ stored' = [x \in DOMAIN stored \ {k} |-> stored[x]]
    /\ UNCHANGED <<calls, started>>
    /\ FetchStep

EmptyMap == [x \in {} |-> None]

FetchInit ==
    /\ cache = EmptyMap
    /\ stored = EmptyMap
    /\ calls = [t \in Tasks |-> IdleCall]
    /\ started = 0

FetchNext ==
    \/ \/ \E t \in Tasks, u \in Urls, h \in Headers, ca \in BOOLEAN, la \in BOOLEAN :
              fetch_api_data(t, u, h, ca, la)
       \/ \E t \in Tasks : acquire(t)
       \/ \E t \in Tasks : make_request_ok(t)
       \/ \E t \in Tasks : make_request_error(t)
       \/ \E t \in Tasks : wait_fixed(t)
       \/ \E t \in Tasks, u \in Urls : main_fetch_api_data(t, u)
       \/ \E t \in Tasks : main_request_ok(t)
       \/ \E t \in Tasks : main_request_error(t)
       \/ \E t \in Tasks : finish(t)
       \/ \E k \in DOMAIN cache : expire(k)

(***************************************************************************)
(* modules/MarketAPI.py fetch_api_data, lines 35-58: the key is the url,   *)
(* the text is json.dumps, and the request is repeated in a `while True`   *)
(* loop for as long as it raises ClientResponseError.                      *)
(***************************************************************************)
legacy_fetch_api_data(t, url) ==
    /\ calls[t].pc = "idle"
    /\ started < MaxCalls
    /\ started' = started + 1
    /\ LET c0 == [IdleCall EXCEPT !.variant = "legacy", !.url = url,
                     !.cacheArg = TRUE, !.limiterArg = TRUE,
                     !.afterStored = StoredLive("legacy", url, NoHeaders)]
           data == get_cached_data(TRUE, url)
       IN  calls' = [calls EXCEPT ![t] =
               IF data # None
               THEN LET v == json_loads(data)
                    IN  IF v = JSONDecodeError
                        THEN [c0 EXCEPT !.pc = "failed", !.hit = TRUE]
                        ELSE [c0 EXCEPT !.pc = "done", !.ret = v, !.hit = TRUE,
                                       !.origin = stored[url].ret]
               ELSE [c0 EXCEPT !.pc = "acquire"]]
    /\ UNCHANGED <<cache, stored>>
    /\ FetchStep

\* lines 47-55
legacy_request_ok(t) ==
    /\ calls[t].pc = "request"
    /\ calls[t].variant = "legacy"
    /\ LET c == calls[t]
           data == JsonOf(c.url)
       IN  /\ cache' = set_cached_data(TRUE, c.url, json_dumps(data))
           /\ stored' = Remember(TRUE, c.url,
                           [variant |-> "legacy", url |-> c.url,
                            headers |-> NoHeaders, ret |-> data])
           /\ calls' = [calls EXCEPT ![t].pc = "done", ![t].ret = data,
                                     ![t].attempts = @ + 1]
    /\ UNCHANGED started
    /\ FetchStep

\* lines 56-58: raise_for_status raised ClientResponseError; sleep_time += 1.
\* The loop has no exit; the model stops counting at MaxLegacyAttempts.
legacy_request_error(t) ==
    /\ calls[t].pc = "request"
    /\ calls[t].variant = "legacy"
    /\ calls[t].attempts < MaxLegacyAttempts
    /\ calls' = [calls EXCEPT ![t].attempts = @ + 1, ![t].fails = @ + 1,
                              ![t].pc = "wait"]
    /\ UNCHANGED <<cache, stored, started>>
    /\ FetchStep

\* an exception that is no ClientResponseError (a connection error) is not
\* caught and leaves the call
legacy_transport_error(t) ==
    /\ calls[t].pc = "request"
    /\ calls[t].variant = "legacy"
    /\ calls[t].attempts < MaxLegacyAttempts
    /\ calls' = [calls EXCEPT ![t].attempts = @ + 1, ![t].fails = @ + 1,
                              ![t].pc = "failed"]
    /\ UNCHANGED <<cache, stored, started>>
    /\ FetchStep

\* await sleep(sleep_time); sleep_time is the number of failures so far
legacy_sleep(t) ==
    /\ calls[t].pc = "wait"
    /\ calls[t].variant = "legacy"
    /\ calls' = [calls EXCEPT ![t].pc = "request",
                              ![t].waits = Append(@, calls[t].fails)]
    /\ UNCHANGED <<cache, stored, started>>
    /\ FetchStep

LegacyNext ==
    \/ \/ \E t \in Tasks, u \in Urls : legacy_fetch_api_data(t, u)
       \/ \E t \in Tasks : acquire(t)
       \/ \E t \in Tasks : legacy_request_ok(t)
       \/ \E t \in Tasks : legacy_request_error(t)
       \/ \E t \in Tasks : legacy_transport_error(t)
       \/ \E t \in Tasks : legacy_sleep(t)
       \/ \E t \in Tasks : finish(t)
       \/ \E k \in DOMAIN cache : expire(k)

(***************************************************************************)
(* fetch_wfm_data of modules/MarketData.py (both copies): the key is the   *)
(* url, the text is json.dumps; on a miss up to `retries` attempts, each   *)
(* inside `async with rate_limiter`, and None when none of them succeeds.  *)
(***************************************************************************)
retries == 3

\* lines 21-25: the lookup; a miss goes to the first pass of the loop
fetch_wfm_data(t, url) ==
    /\ calls[t].pc = "idle"
    /\ started < MaxCalls
    /\ started' = started + 1
    /\ LET c0 == [IdleCall EXCEPT !.variant = "wfm", !.url = url,
                     !.cacheArg = TRUE, !.limiterArg = TRUE]
           data == get_cached_data(TRUE, url)
       IN  calls' = [calls EXCEPT ![t] =
               IF data # None
               THEN [c0 EXCEPT !.pc = "done", !.ret = json_loads(data), !.hit = TRUE,
                               !.origin = stored[url].ret]
               ELSE [c0 EXCEPT !.pc = "acquire"]]
    /\ UNCHANGED <<cache, stored>>
    /\ FetchStep

\* lines 33-41: status 200, the payload is stored and returned
wfm_request_ok(t) ==
    /\ calls[t].pc = "request"
    /\ calls[t].variant = "wfm"
    /\ LET c == calls[t]
           data == JsonOf(c.url)
       IN  /\ cache' = set_cached_data(TRUE, c.url, json_dumps(data))
           /\ stored' = Remember(TRUE, c.url,
                           [variant |-> "wfm", url |-> c.url,
                            headers |-> NoHeaders, ret |-> data])
           /\ calls' = [calls EXCEPT ![t].pc = "done", ![t].ret = data,
                                     ![t].attempts = @ + 1]
    /\ UNCHANGED started
    /\ FetchStep

wfm_request_error_keeps_token(t) ==
    /\ calls[t].pc = "request"
    /\ calls[t].variant = "wfm"
    /\ calls' = [calls EXCEPT ![t].attempts = @ + 1, ![t].fails = @ + 1,
                     ![t].pc = IF calls[t].attempts + 1 < retries THEN "request"
                               ELSE "done"]
    /\ UNCHANGED <<cache, stored, started>>
    /\ FetchStep

\* lines 42-45: another status, or aiohttp.ClientError from the request: the
\* error is logged and the loop goes on; after the last pass the function
\* ends without a return statement
wfm_request_error(t) ==
    /\ calls[t].pc = "request"
    /\ calls[t].variant = "wfm"
    /\ calls' = [calls EXCEPT ![t].attempts = @ + 1, ![t].fails = @ + 1,
                     ![t].pc = IF calls[t].attempts + 1 < retries THEN "acquire"
                               ELSE "done"]
    /\ UNCHANGED <<cache, stored, started>>
    /\ FetchStep

WfmNext ==
    \/ \E t \in Tasks, u \in Urls : fetch_wfm_data(t, u)
    \/ \E t \in Tasks : acquire(t)
    \/ \E t \in Tasks : wfm_request_ok(t)
    \/ \E t \in Tasks : wfm_request_error(t)
    \/ \E t \in Tasks : finish(t)
    \/ \E k \in DOMAIN cache : expire(k)

(***************************************************************************)
(* The manifest decoder.  A byte is one of five symbols.  A stream is the  *)
(* header byte H, payload bytes (A decodes to a, B to b) and the           *)
(* end-of-stream marker E; X is a byte that no stream holds.               *)
(***************************************************************************)
ByteValues == {"H", "A", "B", "E", "X"}

Payload == {"A", "B"}

Plain(b) == IF b = "A" THEN "a" ELSE "b"

RECURSIVE BuffersOfLen(_)
BuffersOfLen(n) ==
    IF n = 0 THEN {<<>>}
    ELSE {Append(s, b) : s \in BuffersOfLen(n - 1), b \in ByteValues}

Buffers == UNION {BuffersOfLen(n) : n \in 0..MaxBuf}

TrimBuffers == UNION {BuffersOfLen(n) : n \in 0..MaxTrimBuf}

\* Python's byt[i:] and byt[0:length] (a negative length counts from the end)
From(data, i) == SubSeq(data, i, Len(data))

Slice(data, n) ==
    IF n >= 0 THEN SubSeq(data, 1, IF n < Len(data) THEN n ELSE Len(data))
    ELSE SubSeq(data, 1, IF Len(data) + n > 0 THEN Len(data) + n ELSE 0)

(***************************************************************************)
(* lzma.LZMADecompressor(FORMAT_AUTO).decompress(data) on a fresh          *)
(* decompressor: LZMAError on a byte that cannot be there; the output so   *)
(* far, without an error, when the data ends inside the stream; eof and    *)
(* the unused data when the end-of-stream marker is reached.               *)
(***************************************************************************)
RECURSIVE DecodePayload(_, _, _)
DecodePayload(data, i, out) ==
    IF i > Len(data)
    THEN [err |-> FALSE, res |-> out, eof |-> FALSE, unused_data |-> <<>>]
    ELSE IF data[i] = "E"
    THEN [err |-> FALSE, res |-> out, eof |-> TRUE, unused_data |-> From(data, i + 1)]
    ELSE IF data[i] \in Payload
    THEN DecodePayload(data, i + 1, Append(out, Plain(data[i])))
    ELSE [err |-> TRUE, res |-> <<>>, eof |-> FALSE, unused_data |-> <<>>]

decompress(data) ==
    IF data = <<>>
    THEN [err |-> FALSE, res |-> <<>>, eof |-> FALSE, unused_data |-> <<>>]
    ELSE IF data[1] # "H"
    THEN [err |-> TRUE, res |-> <<>>, eof |-> FALSE, unused_data |-> <<>>]
    ELSE DecodePayload(data, 2, <<>>)

LZMAError == [err |-> TRUE, res |-> <<>>]

Decoded(out) == [err |-> FALSE, res |-> out]

RECURSIVE decompress_lzma_loop_strict(_, _, _)
decompress_lzma_loop_strict(data, results, n) ==
    LET d == decompress(data) IN
    IF d.err THEN LZMAError
    ELSE IF d.unused_data = <<>> THEN Decoded(results \o d.res)
    ELSE decompress_lzma_loop_strict(d.unused_data, results \o d.res, n + 1)

\* the loop of decompress_lzma: results is b"".join(results) so far, n the
\* number of results appended
RECURSIVE decompress_lzma_loop(_, _, _)
decompress_lzma_loop(data, results, n) ==
    LET d == decompress(data) IN
    IF d.err
    THEN IF n > 0 THEN Decoded(results) ELSE LZMAError
    ELSE IF d.unused_data = <<>>
    THEN Decoded(results \o d.res)
    ELSE IF ~d.eof
    THEN LZMAError
    ELSE decompress_lzma_loop(d.unused_data, results \o d.res, n + 1)

decompress_lzma(data) == decompress_lzma_loop(data, <<>>, 0)

\* bytes.decode("utf-8") of the one-byte characters a and b
RECURSIVE decode_utf8(_)
decode_utf8(bytes) ==
    IF bytes = <<>> THEN "" ELSE Head(bytes) \o decode_utf8(Tail(bytes))

(***************************************************************************)
(* fix.  The fetch is modules/MarketAPI.py lines 82-94 (the bytes of the   *)
(* response or of the cache, or `return` on ClientResponseError); the trim *)
(* loop and the final decode are the same text in both files.              *)
(***************************************************************************)
fix_fetch(data) ==
    /\ fixpc = "fetch"
    /\ byt' = data
    /\ length' = Len(data)
    /\ fixpc' = "loop"
    /\ UNCHANGED fixret
    /\ DecodeStep

fix_fetch_failed ==
    /\ fixpc = "fetch"
    /\ fixpc' = "returned"
    /\ fixret' = None
    /\ UNCHANGED <<byt, length>>
    /\ DecodeStep

fix_trim_by_two ==
    /\ fixpc = "loop"
    /\ decompress_lzma(Slice(byt, length)).err
    /\ length' = length - 2
    /\ UNCHANGED <<byt, fixpc, fixret>>
    /\ DecodeStep

\* one pass of `while stay:` in which decompress_lzma raises
fix_trim ==
    /\ fixpc = "loop"
    /\ decompress_lzma(Slice(byt, length)).err
    /\ length' = length - 1
    /\ UNCHANGED <<byt, fixpc, fixret>>
    /\ DecodeStep

\* the pass in which it does not raise, and the return statement
fix_return ==
    /\ fixpc = "loop"
    /\ ~decompress_lzma(Slice(byt, length)).err
    /\ LET d == decompress_lzma(Slice(byt, length))
       IN  IF d.err
           THEN fixpc' = "raised" /\ fixret' = None
           ELSE fixpc' = "returned" /\ fixret' = decode_utf8(d.res)
    /\ UNCHANGED <<byt, length>>
    /\ DecodeStep

DecodeInit ==
    /\ byt = <<>>
    /\ length = 0
    /\ fixpc = "fetch"
    /\ fixret = None

\* the same steps over the buffers of the trim loop's properties
TrimNext ==
    \/ \E data \in TrimBuffers : fix_fetch(data)
    \/ fix_fetch_failed
    \/ fix_trim
    \/ fix_return

DecodeNext ==
    \/ \E data \in Buffers : fix_fetch(data)
    \/ fix_fetch_failed
    \/ fix_trim
    \/ fix_return

(***************************************************************************)
(* The fetch run of main.py (lines 332-343): the catalog, build_item_ids,  *)
(* the gather of process_price_history, save_price_history.  A record has  *)
(* the same fields everywhere; a field the JSON object lacks is Absent.    *)
(***************************************************************************)
Absent == "absent"

\* fetch_all_items: the marketplace catalog
Catalog ==
    {[item_name |-> "A", id |-> "idA", url_name |-> "a"],
     [item_name |-> "B", id |-> "idB", url_name |-> "b"]}

\* the order in which the loops meet names and dates
NameOrder == <<"A", "B", "Gone", "Old">>
DateOrder == <<"D0", "D1", "D2">>

Names == {NameOrder[i] : i \in DOMAIN NameOrder}

\* uuid.uuid4().hex[:24]: any of these
Uuids == {"u1", "u2"}

\* translation_dict.json: empty; an old name to a catalog name; a table in
\* which a translated name is itself a key; a name the catalog lacks
TranslationTables ==
    { EmptyMap,
      [n \in {"Old"} |-> "A"],
      [n \in {"Old", "A"} |-> IF n = "Old" THEN "A" ELSE "B"],
      [n \in {"B"} |-> "Gone"] }

Point(date, order_type, subtype, of) ==
    [datetime |-> <<date, "00:00:00.000+00:00">>, order_type |-> order_type,
     subtype |-> subtype, item_id |-> Absent, of |-> of]

\* the payload of /items/{url_name}/statistics, the same at every request
Statistics(url_name) ==
    IF url_name = "a"
    THEN [statistics_closed |-> <<Point("D1", Absent, Absent, "a1")>>,
          statistics_live |-> <<Point("D2", "buy", Absent, "a2")>>]
    ELSE [statistics_closed |-> <<Point("D1", Absent, "r0", "b1")>>,
          statistics_live |-> <<>>]

\* https://relics.run/history/: the mirror's file of each date
MirrorFiles ==
    [d \in {"D0"} |->
        [n \in {"Gone", "Old"} |->
            IF n = "Gone" THEN <<Point("D0", Absent, Absent, "g0")>>
            ELSE <<Point("D0", Absent, "r0", "o0")>>]]

Put(f, k, v) == [x \in DOMAIN f \cup {k} |-> IF x = k THEN v ELSE f[x]]

\* the keys of a dict, in the order the loops meet them
RECURSIVE KeysInOrder(_, _, _)
KeysInOrder(order, i, dom) ==
    IF i > Len(order) THEN <<>>
    ELSE (IF order[i] \in dom THEN <<order[i]>> ELSE <<>>)
             \o KeysInOrder(order, i + 1, dom)

(***************************************************************************)
(* modules/MarketAPI.py fetch_premade_data: every file of the mirror is    *)
(* written to the output directory.                                        *)
(***************************************************************************)
fetch_premade_data ==
    /\ runpc = "idle"
    /\ ~mirrored
    /\ mirrored' = TRUE
    /\ artifacts' = [d \in DOMAIN artifacts \cup DOMAIN MirrorFiles |->
                        IF d \in DOMAIN MirrorFiles THEN MirrorFiles[d]
                        ELSE artifacts[d]]
    /\ UNCHANGED <<translation_dict, runNo, runsCompleted, runpc, item_ids,
                   tasks, price_history_dict>>
    /\ RunStep

(***************************************************************************)
(* main.py build_item_ids, lines 293-324.  uuid gives the value uuid4      *)
(* returns when a name needs one.  A result with err set is the KeyError   *)
(* of line 316.                                                            *)
(***************************************************************************)
\* a file whose json.dump was cut short: its text is no JSON document
PartlyWritten == [n \in {"<cut short>"} |-> <<>>]

CatalogIds ==
    [n \in {i.item_name : i \in Catalog} |->
        (CHOOSE i \in Catalog : i.item_name = n).id]

\* lines 306-316 for the records of one item of a file
RECURSIVE StampRecords(_, _, _, _, _)
StampRecords(recs, i, fixed_item, ids, uuid) ==
    IF i > Len(recs) THEN [err |-> FALSE, ids |-> ids, recs |-> recs]
    ELSE LET ids1 == IF recs[i].subtype = Absent /\ fixed_item \notin DOMAIN ids
                     THEN Put(ids, fixed_item, uuid[fixed_item])
                     ELSE ids
         IN  IF fixed_item \notin DOMAIN ids1
             THEN [err |-> TRUE, ids |-> ids1, recs |-> recs]
             ELSE StampRecords([recs EXCEPT ![i].item_id = ids1[fixed_item]],
                               i + 1, fixed_item, ids1, uuid)

\* lines 305-316 for one file
RECURSIVE StampFile(_, _, _, _, _)
StampFile(history_file, items, i, ids, uuid) ==
    IF i > Len(items) THEN [err |-> FALSE, ids |-> ids, file |-> history_file]
    ELSE LET item == items[i]
             fixed_item == IF item \notin DOMAIN translation_dict THEN item
                           ELSE translation_dict[item]
             r == StampRecords(history_file[item], 1, fixed_item, ids, uuid)
         IN  IF r.err THEN [err |-> TRUE, ids |-> r.ids, file |-> history_file]
             ELSE StampFile([history_file EXCEPT ![item] = r.recs],
                            items, i + 1, r.ids, uuid)

\* lines 299-319: every file of the output directory is read, stamped and
\* written back; an exception (the KeyError, or json.load on a file that is
\* no JSON document) leaves this file and the later ones as they were
RECURSIVE StampFiles(_, _, _, _, _)
StampFiles(files, dates, i, ids, uuid) ==
    IF i > Len(dates) THEN [err |-> FALSE, ids |-> ids, files |-> files]
    ELSE LET d == dates[i]
             r == StampFile(files[d], KeysInOrder(NameOrder, 1, DOMAIN files[d]),
                            1, ids, uuid)
         IN  IF files[d] = PartlyWritten THEN [err |-> TRUE, ids |-> ids, files |-> files]
             ELSE IF r.err THEN [err |-> TRUE, ids |-> r.ids, files |-> files]
             ELSE StampFiles([files EXCEPT ![d] = r.file], dates, i + 1, r.ids, uuid)

build_item_ids(files, uuid) ==
    StampFiles(files, KeysInOrder(DateOrder, 1, DOMAIN files), 1, CatalogIds, uuid)

\* main, lines 335-339: the catalog is fetched and build_item_ids runs
run_build_item_ids ==
    /\ runpc = "idle"
    /\ runNo < MaxRuns
    /\ runNo' = runNo + 1
    /\ \E uuid \in [Names -> Uuids] :
          LET r == build_item_ids(artifacts, uuid) IN
          /\ artifacts' = r.files
          /\ item_ids' = r.ids
          /\ runpc' = IF r.err THEN "build_raised" ELSE "gather"
    /\ tasks' = [i \in Catalog |-> "pending"]
    /\ price_history_dict' = EmptyMap
    /\ UNCHANGED <<translation_dict, mirrored, runsCompleted>>
    /\ RunStep

\* main, line 335: the fetch of the catalog raises; nothing catches it
run_fetch_all_items_failed ==
    /\ runpc = "idle"
    /\ runNo < MaxRuns
    /\ runNo' = runNo + 1
    /\ runpc' = "catalog_raised"
    /\ UNCHANGED <<translation_dict, artifacts, mirrored, runsCompleted,
                   item_ids, tasks, price_history_dict>>
    /\ RunStep

(***************************************************************************)
(* main.py process_price_history, lines 86-111.                            *)
(***************************************************************************)
Append2(dict, date, item_name, rec) ==
    LET day == IF date \in DOMAIN dict THEN dict[date] ELSE EmptyMap
        list == IF item_name \in DOMAIN day THEN day[item_name] ELSE <<>>
    IN  Put(dict, date, Put(day, item_name, Append(list, rec)))

\* lines 96-107 for the points of one list; err is the KeyError of line 102
RECURSIVE ProcessPoints(_, _, _, _)
ProcessPoints(ph, i, item, dict) ==
    IF i > Len(ph) THEN [err |-> FALSE, dict |-> dict]
    ELSE LET price_history_day == ph[i]
             date == price_history_day.datetime[1]
             item_name == IF item.item_name \in DOMAIN translation_dict
                          THEN translation_dict[item.item_name]
                          ELSE item.item_name
         IN  IF item_name \notin DOMAIN item_ids
             THEN [err |-> TRUE, dict |-> dict]
             ELSE LET stamped == [price_history_day EXCEPT
                                     !.item_id = item_ids[item_name],
                                     !.order_type = IF @ = Absent THEN "Closed" ELSE @]
                  IN  ProcessPoints(ph, i + 1, item,
                                    Append2(dict, date, item_name, stamped))

\* fetch_and_process_item_statistics after its fetch has returned
fetch_and_process_item_statistics(item) ==
    /\ runpc = "gather"
    /\ tasks[item] = "pending"
    /\ LET price_history == Statistics(item.url_name)
           closed == ProcessPoints(price_history.statistics_closed, 1, item,
                                   price_history_dict)
           live == ProcessPoints(price_history.statistics_live, 1, item, closed.dict)
       IN  /\ price_history_dict' = IF closed.err THEN closed.dict ELSE live.dict
           /\ tasks' = [tasks EXCEPT ![item] =
                           IF closed.err \/ live.err THEN "KeyError" ELSE "done"]
    /\ UNCHANGED <<translation_dict, artifacts, mirrored, runNo, runsCompleted,
                   runpc, item_ids>>
    /\ RunStep

\* the fetch of fetch_item_statistics raises in this item's coroutine
fetch_item_statistics_failed(item) ==
    /\ runpc = "gather"
    /\ tasks[item] = "pending"
    /\ tasks' = [tasks EXCEPT ![item] = "fetch_failed"]
    /\ UNCHANGED <<translation_dict, artifacts, mirrored, runNo, runsCompleted,
                   runpc, item_ids, price_history_dict>>
    /\ RunStep

Raised == {"fetch_failed", "KeyError"}

\* line 109: gather hands the first exception of a coroutine to its awaiter;
\* nothing catches it in process_price_history or in main
gather_raises ==
    /\ runpc = "gather"
    /\ \E item \in Catalog : tasks[item] \in Raised
    /\ runpc' = "gather_raised"
    /\ UNCHANGED <<translation_dict, artifacts, mirrored, runNo, runsCompleted,
                   item_ids, tasks, price_history_dict>>
    /\ RunStep

\* lines 109-111: every coroutine has returned
gather_returns ==
    /\ runpc = "gather"
    /\ \A item \in Catalog : tasks[item] = "done"
    /\ runpc' = "save"
    /\ UNCHANGED <<translation_dict, artifacts, mirrored, runNo, runsCompleted,
                   item_ids, tasks, price_history_dict>>
    /\ RunStep

\* main.py save_price_history, lines 114-119
save_price_history ==
    /\ runpc = "save"
    /\ artifacts' = [day \in DOMAIN artifacts \cup DOMAIN price_history_dict |->
                        IF day \in DOMAIN artifacts THEN artifacts[day]
                        ELSE price_history_dict[day]]
    /\ runpc' = "idle"
    /\ runsCompleted' = runsCompleted + 1
    /\ UNCHANGED <<translation_dict, mirrored, runNo, item_ids, tasks,
                   price_history_dict>>
    /\ RunStep

\* lines 115-119 when the process is ended inside json.dump of a day's
\* file: the days before it are written, this day's file exists, cut short
save_price_history_aborted ==
    /\ runpc = "save"
    /\ LET days == KeysInOrder(DateOrder, 1, DOMAIN price_history_dict)
       IN  \E k \in DOMAIN days :
              /\ days[k] \notin DOMAIN artifacts
              /\ artifacts' =
                     [day \in DOMAIN artifacts \cup {days[j] : j \in 1..k} |->
                         IF day \in DOMAIN artifacts THEN artifacts[day]
                         ELSE IF day = days[k] THEN PartlyWritten
                         ELSE price_history_dict[day]]
    /\ runpc' = "save_aborted"
    /\ UNCHANGED <<translation_dict, mirrored, runNo, runsCompleted, item_ids,
                   tasks, price_history_dict>>
    /\ RunStep

\* the process has ended with the exception; the next run starts anew
run_restart ==
    /\ runpc \in {"catalog_raised", "build_raised", "gather_raised", "save_aborted"}
    /\ runpc' = "idle"
    /\ UNCHANGED <<translation_dict, artifacts, mirrored, runNo, runsCompleted,
                   item_ids, tasks, price_history_dict>>
    /\ RunStep

RunInit ==
    /\ translation_dict \in TranslationTables
    /\ artifacts = EmptyMap
    /\ mirrored = FALSE
    /\ runNo = 0
    /\ runsCompleted = 0
    /\ runpc = "idle"
    /\ item_ids = EmptyMap
    /\ tasks = [i \in Catalog |-> "pending"]
    /\ price_history_dict = EmptyMap

\* the other parts' specifications start with the empty table
RunIdle ==
    /\ translation_dict = EmptyMap
    /\ artifacts = EmptyMap
    /\ mirrored = FALSE
    /\ runNo = 0
    /\ runsCompleted = 0
    /\ runpc = "idle"
    /\ item_ids = EmptyMap
    /\ tasks = [i \in Catalog |-> "pending"]
    /\ price_history_dict = EmptyMap

RunNext ==
    \/ fetch_premade_data
    \/ run_build_item_ids
    \/ run_fetch_all_items_failed
    \/ \E item \in Catalog : fetch_and_process_item_statistics(item)
    \/ \E item \in Catalog : fetch_item_statistics_failed(item)
    \/ gather_raises
    \/ gather_returns
    \/ save_price_history
    \/ save_price_history_aborted
    \/ run_restart

(***************************************************************************)
(* The ingestion of the mirror's files by the market_engine package:       *)
(* fetch_statistics_from_relics_run with one of the two                    *)
(* fix_names_and_add_ids (common.py lines 146-155, with the order_type     *)
(* default; modules/API/RelicsRunAPI.py lines 14-20, without it).          *)
(***************************************************************************)
md5(text) == "md5<" \o text \o ">"

get_item_id_hash_first(item_name, ids) ==
    md5(item_name)

\* common.py get_item_id, lines 43-47
get_item_id(item_name, ids) ==
    IF item_name \in DOMAIN ids THEN ids[item_name] ELSE md5(item_name)

\* fetch_item_ids_from_relics_run: the item_ids the mirror serves
IdMaps == {CatalogIds, Put(CatalogIds, "Old", "idO")}

FixVariants == {"common", "relics"}

\* the mirror's file of each date, as fetch_data receives it
RelicsFiles ==
    [d \in {"D0", "D1"} |->
        IF d = "D0"
        THEN [n \in {"Gone", "Old"} |->
                 IF n = "Gone"
                 THEN <<Point("D0", Absent, Absent, "g0"), Point("D0", "buy", Absent, "g1")>>
                 ELSE <<Point("D0", Absent, "r0", "o0"), Point("D0", "sell", "r0", "o1")>>]
        ELSE [n \in {"Gone", "A"} |->
                 IF n = "Gone" THEN <<Point("D1", Absent, Absent, "g2")>>
                 ELSE <<Point("D1", Absent, Absent, "a3")>>]]

\* the inner loop of fix_names_and_add_ids: item_name is the loop variable of
\* the outer loop and keeps the translated name for the days that follow
RECURSIVE FixDays(_, _, _, _, _, _)
FixDays(days, i, item_name, ids, variant, called) ==
    IF i > Len(days) THEN [days |-> days, calls |-> called]
    ELSE LET name == IF item_name \in DOMAIN translation_dict
                     THEN translation_dict[item_name] ELSE item_name
             order_type == IF variant = "common" /\ days[i].order_type = Absent
                           THEN "closed" ELSE days[i].order_type
             id == get_item_id(name, ids)
         IN  FixDays([days EXCEPT ![i].order_type = order_type, ![i].item_id = id],
                     i + 1, name, ids, variant,
                     called \cup {[item_name |-> name, item_ids |-> ids, ret |-> id]})

RECURSIVE FixNames(_, _, _, _, _, _)
FixNames(data, names, i, ids, variant, called) ==
    IF i > Len(names) THEN [data |-> data, calls |-> called]
    ELSE LET r == FixDays(data[names[i]], 1, names[i], ids, variant, called)
         IN  FixNames([data EXCEPT ![names[i]] = r.days], names, i + 1, ids,
                      variant, r.calls)

fix_names_and_add_ids(data, ids, variant) ==
    FixNames(data, KeysInOrder(NameOrder, 1, DOMAIN data), 1, ids, variant, {})

\* get_dates_to_fetch and the start of fetch_statistics_from_relics_run
fetch_statistics_from_relics_run(ids, variant) ==
    /\ ingestpc \in {"idle", "aborted"}
    /\ runpc = "idle"
    /\ loadpc = "idle"
    /\ ingestNo < MaxIngests
    /\ DOMAIN RelicsFiles \ DOMAIN artifacts # {}
    /\ ingestNo' = ingestNo + 1
    /\ ingest' = [item_ids |-> ids, variant |-> variant,
                  requested |-> DOMAIN RelicsFiles \ DOMAIN artifacts, failed |-> {}]
    /\ date_list' = DOMAIN RelicsFiles \ DOMAIN artifacts
    /\ ingestpc' = "gather"
    /\ UNCHANGED <<idCalls, runVars>>
    /\ IngestStep

\* fetch_data(date): the file is fetched, fixed and written.  The gather does
\* not cancel the other dates when one of them has raised
fetch_data(date) ==
    /\ ingestpc \in {"gather", "raised"}
    /\ date \in date_list
    /\ LET r == fix_names_and_add_ids(RelicsFiles[date], ingest.item_ids, ingest.variant)
       IN  /\ artifacts' = Put(artifacts, date, r.data)
           /\ idCalls' = idCalls \cup r.calls
    /\ date_list' = date_list \ {date}
    /\ UNCHANGED <<ingestpc, ingestNo, ingest>>
    /\ UNCHANGED <<translation_dict, mirrored, runNo, runsCompleted, runpc,
                   item_ids, tasks, price_history_dict>>
    /\ IngestStep

\* fetch_data(date): every attempt of make_request failed.  fetch_api_data
\* leaves with tenacity's RetryError (common.py line 120 has no reraise), which
\* `except ClientResponseError` of line 29 does not catch: fetch_data raises and
\* the gather of line 40 passes the exception on
fetch_data_failed(date) ==
    /\ ingestpc \in {"gather", "raised"}
    /\ date \in date_list
    /\ date_list' = date_list \ {date}
    /\ ingest' = [ingest EXCEPT !.failed = @ \cup {date}]
    /\ ingestpc' = "raised"
    /\ UNCHANGED <<ingestNo, idCalls, runVars>>
    /\ IngestStep

\* fetch_statistics_from_relics_run is over: the gather returned, or its
\* exception left the program and the dates not yet fetched were cancelled
ingest_done ==
    /\ \/ ingestpc = "gather" /\ date_list = {}
       \/ ingestpc = "raised"
    /\ ingestpc' = IF ingestpc = "raised" THEN "aborted" ELSE "idle"
    /\ date_list' = {}
    /\ UNCHANGED <<ingestNo, ingest, idCalls, runVars>>
    /\ IngestStep

IngestInit ==
    /\ ingestpc = "idle"
    /\ ingestNo = 0
    /\ ingest = [item_ids |-> EmptyMap, variant |-> "common", requested |-> {},
                 failed |-> {}]
    /\ date_list = {}
    /\ idCalls = {}

IngestNext ==
    \/ \E ids \in IdMaps, variant \in FixVariants :
          fetch_statistics_from_relics_run(ids, variant)
    \/ \E date \in DOMAIN RelicsFiles : fetch_data(date)
    \/ \E date \in DOMAIN RelicsFiles : fetch_data_failed(date)
    \/ ingest_done

(***************************************************************************)
(* The loader run of main.py, lines 345-360, over the relational store.    *)
(* The store gives what the connection's calls ask of it: begin, commit    *)
(* and rollback of a transaction, and INSERT IGNORE, which leaves out a    *)
(* row whose natural key the table already holds.  A table is the          *)
(* sequence of its rows.                                                   *)
(***************************************************************************)
NULL == "NULL"

HostOffsets == {0 - 5, 0, 2}

\* the number of the calendar day of a date
RECURSIVE IndexOf(_, _, _)
IndexOf(order, x, i) ==
    IF i > Len(order) THEN 0
    ELSE IF order[i] = x THEN i ELSE IndexOf(order, x, i + 1)

DayNumber(date) == IndexOf(DateOrder, date, 1)

\* the DATETIME the store keeps for "<date>T00:00:00.000+00:00": the
\* instant in the time zone of the session, which is the host's
StoredDatetime(datetime) == DayNumber(datetime[1]) * 24 + utcoffset

astimezone_naive(most_recent_datetime) ==
    most_recent_datetime

\* most_recent_datetime.astimezone(timezone('UTC')), line 185: a datetime
\* without a zone is taken as the host's local time
astimezone(most_recent_datetime) ==
    most_recent_datetime - utcoffset

\* utc_datetime.date(), line 186, as the number of the day
DateOfDatetime(utc_datetime) == utc_datetime \div 24

RECURSIVE MaxDatetime(_, _, _)
MaxDatetime(rows, i, m) ==
    IF i > Len(rows) THEN m
    ELSE MaxDatetime(rows, i + 1, IF rows[i].datetime > m THEN rows[i].datetime ELSE m)

\* a date the loader holds: NoDate is None, <<n>> the day of number n
NoDate == <<>>

\* get_date, lines 176-190; SELECT MAX(datetime) is NULL on an empty table
get_date(rows) ==
    IF rows # <<>>
    THEN LET most_recent_datetime == MaxDatetime(rows, 2, rows[1].datetime)
         IN  <<DateOfDatetime(astimezone(most_recent_datetime))>>
    ELSE NoDate

skipped_before(file_date, date) ==
    file_date < date[1]

\* get_file_list, lines 197-200: whether the file is left out
skipped(file_date, date) ==
    file_date <= date[1]

\* get_file_list, lines 193-204, as the set of the files it returns
get_file_list(date, files) ==
    {file \in files : ~(date # NoDate /\ skipped(DayNumber(file), date))}

\* os.listdir gives the files in any order
RECURSIVE Orders(_)
Orders(files) ==
    IF files = {} THEN {<<>>}
    ELSE UNION {{<<f>> \o rest : rest \in Orders(files \ {f})} : f \in files}

RECURSIVE FlattenSeq(_, _)
FlattenSeq(seqs, i) ==
    IF i > Len(seqs) THEN <<>> ELSE seqs[i] \o FlattenSeq(seqs, i + 1)

\* parse_price_history, lines 167-173, with the file each record is from
parse_price_history(file, price_history) ==
    LET items == KeysInOrder(NameOrder, 1, DOMAIN price_history)
        Tag(recs) == [k \in DOMAIN recs |-> [data |-> recs[k], file |-> file]]
    IN  FlattenSeq([j \in DOMAIN items |-> Tag(price_history[items[j]])], 1)

\* get_data_list, lines 207-213
get_data_list(file_list, files) ==
    FlattenSeq([j \in DOMAIN file_list |->
                   parse_price_history(file_list[j], files[file_list[j]])], 1)

\* data.get(key, None), line 154
Get(data, key) ==
    IF key \in DOMAIN data /\ data[key] # Absent THEN data[key] ELSE NULL

\* line 140: the keys of the records as they are read, before order_type
\* is given its default
all_columns(data_list) ==
    {key \in {"item_id", "datetime", "order_type", "subtype", "mod_rank"} :
        \E k \in DOMAIN data_list :
            key \in DOMAIN data_list[k].data /\ data_list[k].data[key] # Absent}

\* lines 150-154: the row a record gives: the values of the statement's
\* columns, order_type with its default; a column the statement leaves out
\* is NULL in the row, as for a column declared without a default
Values(data, columns) ==
    [item_id |-> Get(data, "item_id"),
     datetime |-> StoredDatetime(data.datetime),
     order_type |-> IF "order_type" \notin columns THEN NULL
                    ELSE IF data.order_type = Absent THEN "Closed"
                    ELSE data.order_type,
     subtype |-> Get(data, "subtype"),
     mod_rank |-> Get(data, "mod_rank"),
     of |-> data.of]

\* the identity of a statistic record in the store
NaturalKey(row) == <<row.item_id, row.datetime, row.order_type, row.subtype>>

Keys(rows) == {NaturalKey(rows[k]) : k \in DOMAIN rows}

insert(rows, row) ==
    Append(rows, row)

\* INSERT IGNORE of one row into the rows the transaction sees
insert_ignore(rows, row) ==
    IF NaturalKey(row) \in Keys(rows) THEN rows ELSE Append(rows, row)

\* cursor.executemany(insert_query, batch_values), line 163
RECURSIVE executemany(_, _, _)
executemany(rows, batch_values, k) ==
    IF k > Len(batch_values) THEN rows
    ELSE executemany(insert_ignore(rows, batch_values[k].row), batch_values, k + 1)

rollback_keeps(committed, pending) ==
    pending

\* connection.rollback(): the table is what it was at the last commit
rollback(committed, pending) ==
    committed

\* INSERT IGNORE ... SELECT DISTINCT item_id, <column> ... IS NOT NULL
Distinct(rows, column) ==
    {<<rows[k].item_id, rows[k][column]>> : k \in {j \in DOMAIN rows : rows[j][column] # NULL}}

IdleLoad ==
    [database |-> FALSE, date |-> NoDate, listed |-> {}, file_list |-> <<>>,
     values |-> <<>>, i |-> 0, commits |-> 0, before |-> <<>>,
     sub_types |-> {}, mod_ranks |-> {}, all_columns |-> {}, batches |-> <<>>]

\* main, lines 345-353, up to the begin of the transaction (line 160)
main_load(database) ==
    /\ loadpc = "idle"
    /\ ingestpc \in {"idle", "aborted"}
    /\ loadNo < MaxLoads
    /\ loadNo' = loadNo + 1
    /\ LET date == IF ~database THEN get_date(item_statistics) ELSE NoDate IN
       \E file_list \in Orders(get_file_list(date, DOMAIN artifacts)) :
          LET data_list == get_data_list(file_list, artifacts) IN
          load' = [IdleLoad EXCEPT
                      !.database = database, !.date = date,
                      !.listed = DOMAIN artifacts, !.file_list = file_list,
                      !.all_columns = all_columns(data_list),
                      !.values = [k \in DOMAIN data_list |->
                                     [row |-> Values(data_list[k].data,
                                                     all_columns(data_list)),
                                      file |-> data_list[k].file]],
                      !.before = item_statistics]
    /\ tx' = item_statistics
    /\ loadpc' = "insert"
    /\ UNCHANGED <<utcoffset, item_statistics, item_subtypes, item_mod_ranks>>
    /\ LoadStep

Min(a, b) == IF a < b THEN a ELSE b

\* a slice that stops one record short of the next batch's first
batch_values_short(values, i) ==
    SubSeq(values, i + 1, Min(i + batch_size - 1, Len(values)))

\* line 162: values[i:i + batch_size]
batch_values(values, i) ==
    SubSeq(values, i + 1, Min(i + batch_size, Len(values)))

\* lines 161-164: one batch
executemany_batch ==
    /\ loadpc = "insert"
    /\ load.i < Len(load.values)
    /\ tx' = executemany(tx, batch_values(load.values, load.i), 1)
    /\ load' = [load EXCEPT !.i = load.i + batch_size,
                            !.batches = Append(@, batch_values(load.values, load.i))]
    /\ UNCHANGED <<utcoffset, item_statistics, item_subtypes, item_mod_ranks,
                   loadpc, loadNo>>
    /\ LoadStep

\* lines 163, 133-135: a batch raises; rollback, and the error goes to main
executemany_raises ==
    /\ loadpc = "insert"
    /\ load.i < Len(load.values)
    /\ item_statistics' = rollback(item_statistics, tx)
    /\ tx' = item_statistics'
    /\ loadpc' = "raised"
    /\ UNCHANGED <<utcoffset, item_subtypes, item_mod_ranks, loadNo, load>>
    /\ LoadStep

\* line 132: the commit of managed_transaction, after the last batch
transaction_commit ==
    /\ loadpc = "insert"
    /\ load.i >= Len(load.values)
    /\ item_statistics' = tx
    /\ load' = [load EXCEPT !.commits = load.commits + 1]
    /\ loadpc' = IF ~load.database THEN "derive" ELSE "commit"
    /\ UNCHANGED <<utcoffset, item_subtypes, item_mod_ranks, tx, loadNo>>
    /\ LoadStep

\* lines 355-358: save_sub_type_data and save_mod_type_data, lines 277-290
save_sub_type_data ==
    /\ loadpc = "derive"
    /\ load' = [load EXCEPT !.sub_types = Distinct(item_statistics, "subtype"),
                            !.mod_ranks = Distinct(item_statistics, "mod_rank")]
    /\ loadpc' = "commit"
    /\ UNCHANGED <<utcoffset, item_statistics, item_subtypes, item_mod_ranks,
                   tx, loadNo>>
    /\ LoadStep

\* line 356: build_category_info raises; the statistics are committed already
build_category_info_raises ==
    /\ loadpc = "derive"
    /\ loadpc' = "raised"
    /\ UNCHANGED <<utcoffset, item_statistics, item_subtypes, item_mod_ranks,
                   tx, loadNo, load>>
    /\ LoadStep

\* line 360: cnx.commit()
main_commit ==
    /\ loadpc = "commit"
    /\ item_subtypes' = item_subtypes \cup load.sub_types
    /\ item_mod_ranks' = item_mod_ranks \cup load.mod_ranks
    /\ loadpc' = "done"
    /\ UNCHANGED <<utcoffset, item_statistics, tx, loadNo, load>>
    /\ LoadStep

\* the process is stopped; the store drops the open transaction
interrupted ==
    /\ loadpc \in {"insert", "derive", "commit"}
    /\ tx' = item_statistics
    /\ loadpc' = "interrupted"
    /\ UNCHANGED <<utcoffset, item_statistics, item_subtypes, item_mod_ranks,
                   loadNo, load>>
    /\ LoadStep

\* the process has ended
load_exit ==
    /\ loadpc \in {"done", "raised", "interrupted"}
    /\ loadpc' = "idle"
    /\ UNCHANGED <<utcoffset, item_statistics, item_subtypes, item_mod_ranks,
                   tx, loadNo, load>>
    /\ LoadStep

LoadIdle ==
    /\ item_statistics = <<>>
    /\ item_subtypes = {}
    /\ item_mod_ranks = {}
    /\ tx = <<>>
    /\ loadpc = "idle"
    /\ loadNo = 0
    /\ load = IdleLoad

LoadNext ==
    \/ \E database \in BOOLEAN : main_load(database)
    \/ executemany_batch
    \/ executemany_raises
    \/ transaction_commit
    \/ save_sub_type_data
    \/ build_category_info_raises
    \/ main_commit
    \/ interrupted
    \/ load_exit

\* the files the loader reads are those the ingestion of the mirror wrote;
\* the two programs are run one after the other
IngestAndLoadNext ==
    \/ \E ids \in IdMaps, variant \in FixVariants :
          fetch_statistics_from_relics_run(ids, variant)
    \/ \E date \in DOMAIN RelicsFiles : fetch_data(date)
    \/ \E date \in DOMAIN RelicsFiles : fetch_data_failed(date)
    \/ ingest_done
    \/ \E database \in BOOLEAN : main_load(database)
    \/ executemany_batch
    \/ executemany_raises
    \/ transaction_commit
    \/ save_sub_type_data
    \/ build_category_info_raises
    \/ main_commit
    \/ interrupted
    \/ load_exit

(***************************************************************************)
(* The identity resolver: MarketDatabase of                                *)
(* market_engine/modules/Models/MarketDatabase.py ("Models"), of           *)
(* market_engine/modules/MarketData.py ("MarketData") and of               *)
(* modules/MarketData.py ("legacy").  A str is the sequence of its         *)
(* characters.                                                             *)
(***************************************************************************)
sp == <<" ">>

\* the words of the source and of the queries
W ==
    [blueprint |-> <<"b", "l", "u", "e", "p", "r", "i", "n", "t">>,
     prime |-> <<"p", "r", "i", "m", "e">>,
     primed |-> <<"p", "r", "i", "m", "e", "d">>,
     wraith |-> <<"w", "r", "a", "i", "t", "h">>,
     vandal |-> <<"v", "a", "n", "d", "a", "l">>,
     arcane |-> <<"a", "r", "c", "a", "n", "e">>,
     scene |-> <<"s", "c", "e", "n", "e">>,
     set |-> <<"s", "e", "t">>,
     head |-> <<"h", "e", "a", "d">>,
     heads |-> <<"h", "e", "a", "d", "s">>,
     neuroptics |-> <<"n", "e", "u", "r", "o", "p", "t", "i", "c", "s">>,
     helmet |-> <<"h", "e", "l", "m", "e", "t">>,
     taserman |-> <<"t", "a", "s", "e", "r", "m", "a", "n">>,
     volt |-> <<"v", "o", "l", "t">>,
     Volt |-> <<"V", "o", "l", "t">>,
     loki |-> <<"l", "o", "k", "i">>,
     Loki |-> <<"L", "o", "k", "i">>,
     lich |-> <<"l", "i", "c", "h">>,
     zap |-> <<"z", "a", "p">>]

\* str.lower
lower(s) ==
    [k \in DOMAIN s |-> CASE s[k] = "V" -> "v" [] s[k] = "L" -> "l" [] OTHER -> s[k]]

\* str.split: the maximal runs of characters other than white space
RECURSIVE split_from(_, _, _)
split_from(s, i, word) ==
    LET done == IF word = <<>> THEN <<>> ELSE <<word>>
    IN  IF i > Len(s) THEN done
        ELSE IF <<s[i]>> = sp THEN done \o split_from(s, i + 1, <<>>)
        ELSE split_from(s, i + 1, Append(word, s[i]))

split(s) == split_from(s, 1, <<>>)

\* ' '.join
RECURSIVE join(_)
join(words) ==
    IF Len(words) = 0 THEN <<>>
    ELSE IF Len(words) = 1 THEN words[1]
    ELSE words[1] \o sp \o join(Tail(words))

\* the length of the longest common subsequence of a and b, row by row of
\* the table, each row computed before the next one is begun
RECURSIVE lcs_row(_, _, _, _, _)
lcs_row(prev, ch, b, j, cur) ==
    IF j > Len(b) THEN cur
    ELSE LET left == IF j = 1 THEN 0 ELSE cur[j - 1]
             diag == IF j = 1 THEN 0 ELSE prev[j - 1]
             up == prev[j]
             v == IF ch = b[j] THEN diag + 1
                  ELSE IF left > up THEN left ELSE up
             row == Append(cur, v)
         IN  IF Len(row) = j THEN lcs_row(prev, ch, b, j + 1, row) ELSE <<>>

RECURSIVE lcs(_, _, _, _)
lcs(a, b, i, prev) ==
    IF i > Len(a) THEN prev[Len(b)]
    ELSE LET row == lcs_row(prev, a[i], b, 1, <<>>)
         IN  IF Len(row) = Len(b) THEN lcs(a, b, i + 1, row) ELSE 0

\* fuzz.ratio over python-Levenshtein: 100 for equal strings, 0 when one is
\* empty, else int(round(100 * 2 * lcs / (len1 + len2))); round sends a half
\* to the even neighbour
ratio(s1, s2) ==
    LET n == 200 * lcs(s1, s2, 1, [j \in 1..Len(s2) |-> 0])
        d == Len(s1) + Len(s2)
        q == n \div d
        r == n % d
    IN  IF s1 = s2 THEN 100
        ELSE IF Len(s1) = 0 \/ Len(s2) = 0 THEN 0
        ELSE IF 2 * r > d THEN q + 1
        ELSE IF 2 * r < d THEN q
        ELSE IF q % 2 = 0 THEN q ELSE q + 1

\* what a str function hands back when words[-2] does not exist
IndexError == <<"IndexError">>

\* Models/MarketDatabase.py lines 38-42 (MarketData.py lines 73-77 are the same)
remove_blueprint(s) ==
    LET words == split(lower(s))
        n == Len(words)
    IN  IF n >= 1 /\ words[n] = W.blueprint
        THEN IF n < 2 THEN IndexError
             ELSE IF words[n - 1] \notin {W.prime, W.wraith, W.vandal}
                  THEN join(SubSeq(words, 1, n - 1))
                  ELSE lower(s)
        ELSE lower(s)

\* modules/MarketData.py lines 67-71
legacy_remove_blueprint(s) ==
    LET words == split(lower(s))
        n == Len(words)
    IN  IF n >= 1 /\ words[n] = W.blueprint
           /\ (IF n >= 2 THEN <<words[n - 1]>> ELSE <<>>) # <<W.prime>>
        THEN join(SubSeq(words, 1, n - 1))
        ELSE lower(s)

common_words == <<W.arcane, W.prime, W.scene, W.set>>

\* lines 16-23: the score of the closest common word reaches the threshold
RECURSIVE closest_common_word(_, _, _, _, _)
closest_common_word(word, words, threshold, k, best_score) ==
    IF k > Len(words) THEN best_score > 0 /\ best_score >= threshold
    ELSE LET score == ratio(word, words[k])
         IN  closest_common_word(word, words, threshold, k + 1,
                                 IF score > best_score THEN score ELSE best_score)

\* lines 26-35
remove_common_words(name, common) ==
    LET unblueprinted == remove_blueprint(name)
        filtered_words ==
            SelectSeq(split(unblueprinted),
                      LAMBDA w : ~(closest_common_word(w, common, 80, 1, 0)
                                   /\ w \notin {W.primed}))
    IN  IF unblueprinted = IndexError THEN IndexError ELSE join(filtered_words)

\* lines 50-55: the replacement of the first alias of the dict, a sequence of
\* <<alias, replacement>> in the order of its keys, whose ratio reaches the
\* threshold; the word itself when there is none
RECURSIVE first_alias(_, _, _, _)
first_alias(word, dict, threshold, k) ==
    IF k > Len(dict) THEN word
    ELSE IF ratio(word, dict[k][1]) >= threshold THEN dict[k][2]
    ELSE first_alias(word, dict, threshold, k + 1)

\* lines 45-57
replace_aliases(name, dict) ==
    LET words == split(name)
    IN  join([k \in DOMAIN words |-> first_alias(words[k], dict, 80, 1)])

\* lines 12-13
get_item_names(item) ==
    <<item.item_name>> \o (IF "aliases" \in DOMAIN item THEN item.aliases ELSE <<>>)

\* best_item of a search that met no item
NoItem == [id |-> None]

short_circuit_on_any_score(best_score) == best_score > 0

\* lines 74-75: the scan stops on a perfect score
short_circuit(best_score) == best_score = 100

\* lines 60-77: the score and the item, or the exception of remove_blueprint
find_best_match(item_name, items, word_aliases) ==
    LET name == remove_common_words(replace_aliases(item_name, word_aliases), common_words)
        RECURSIVE loop(_, _, _)
        loop(k, best_score, best_item) ==
            IF k > Len(items) \/ short_circuit(best_score)
            THEN [raised |-> FALSE, best_score |-> best_score, best_item |-> best_item]
            ELSE LET names == get_item_names(items[k])
                     processed_names ==
                         {remove_common_words(names[n], common_words) : n \in DOMAIN names}
                     scores == {ratio(name, processed) : processed \in processed_names}
                     max_score == CHOOSE m \in scores : \A x \in scores : x <= m
                 IN  IF IndexError \in processed_names
                     THEN [raised |-> TRUE, best_score |-> best_score,
                           best_item |-> best_item]
                     ELSE IF max_score > best_score
                     THEN loop(k + 1, max_score, items[k])
                     ELSE loop(k + 1, best_score, best_item)
    IN  IF name = IndexError
        THEN [raised |-> TRUE, best_score |-> 0, best_item |-> NoItem]
        ELSE loop(1, 0, NoItem)

\* MarketData.py lines 98-99: the word aliases of that module
aliases == <<<<W.head, W.neuroptics>>, <<W.taserman, W.volt>>>>

\* the rows of table items
ItemRows ==
    <<[id |-> "idV", item_name |-> W.Volt],
      [id |-> "idL", item_name |-> W.Loki \o sp \o W.prime]>>

\* Models/MarketDatabase.py lines 175-187 over the query of lines 92-97:
\* GROUP_CONCAT joins the aliases of an item with commas, split(',') parts them
Models_get_all_items(tables) ==
    LET of(id) == SelectSeq(tables.item_aliases, LAMBDA row : row.item_id = id)
        RECURSIVE group_concat(_)
        group_concat(rows) ==
            IF Len(rows) = 1 THEN rows[1].alias
            ELSE rows[1].alias \o <<",">> \o group_concat(Tail(rows))
        RECURSIVE split_comma(_, _, _)
        split_comma(s, i, part) ==
            IF i > Len(s) THEN <<part>>
            ELSE IF s[i] = "," THEN <<part>> \o split_comma(s, i + 1, <<>>)
            ELSE split_comma(s, i + 1, Append(part, s[i]))
        alias(id) == IF Len(of(id)) = 0 THEN <<>> ELSE group_concat(of(id))
    IN  [k \in DOMAIN tables.items |->
            [id |-> tables.items[k].id, item_name |-> tables.items[k].item_name,
             aliases |-> IF Len(alias(tables.items[k].id)) > 0
                         THEN split_comma(alias(tables.items[k].id), 1, <<>>)
                         ELSE <<>>]]

\* MarketData.py lines 169-182: the aliases are gathered beside item_data
\* and only item_data is kept
MarketData_get_all_items(tables) ==
    [k \in DOMAIN tables.items |->
        [id |-> tables.items[k].id, item_name |-> tables.items[k].item_name]]

\* Models/MarketDatabase.py lines 254-255: dict of the rows (alias, word)
get_word_aliases(tables) ==
    LET RECURSIVE dict(_, _, _)
        dict(rows, k, d) ==
            IF k > Len(rows) THEN d
            ELSE LET at == {j \in DOMAIN d : d[j][1] = rows[k].alias}
                     pair == <<rows[k].alias, rows[k].word>>
                 IN  dict(rows, k + 1,
                          IF at = {} THEN Append(d, pair)
                          ELSE [j \in DOMAIN d |-> IF j \in at THEN pair ELSE d[j]])
    IN  dict(tables.word_aliases, 1, <<>>)

\* the threshold of _get_fuzzy_item taken as inclusive
fuzzy_item_from_fifty(found) ==
    IF found.raised THEN [id |-> "IndexError"]
    ELSE IF found.best_score >= 50 THEN found.best_item ELSE NoItem

\* lines 246-249 and MarketData.py lines 225-228, on what find_best_match gave
_get_fuzzy_item(found) ==
    IF found.raised THEN [id |-> "IndexError"]
    ELSE IF found.best_score > 50 THEN found.best_item ELSE NoItem

\* the names _get_fuzzy_item is asked for: the empty one, one that is
\* "blueprint" alone, one of a noise word alone, names of items, an alias
Queries ==
    {<<>>, W.blueprint, W.prime, W.Volt, W.lich, W.zap, W.head,
     W.volt \o sp \o sp \o W.primed}

\* the names remove_blueprint is called on
BlueprintNames ==
    Queries \cup {W.Loki \o sp \o W.prime \o sp \o W.blueprint,
                  W.wraith \o sp \o W.blueprint,
                  W.Volt \o sp \o W.blueprint}

ItemAliases == {[item_id |-> "idV", alias |-> W.zap], [item_id |-> "idL", alias |-> W.zap]}

WordAliases ==
    {[word |-> W.helmet, alias |-> W.heads],
     [word |-> W.neuroptics, alias |-> W.head]}

\* get_item: lines 202-207 of MarketData.py, the caller of _get_fuzzy_item
get_item(item) ==
    /\ module # "legacy"
    /\ \E word_aliases_used \in {IF module = "Models" THEN get_word_aliases(connection)
                                  ELSE aliases} :
       \E found \in {find_best_match(item, all_items, word_aliases_used)} :
           returned' = [op |-> "_get_fuzzy_item", item_name |-> item,
                        all_items |-> all_items, word_aliases |-> word_aliases_used,
                        replaced |-> replace_aliases(item, word_aliases_used),
                        found |-> found, result |-> _get_fuzzy_item(found)]
    /\ UNCHANGED <<db, connection, all_items, module, resolveNo>>
    /\ ResolveStep

\* remove_blueprint of each module on a name
call_remove_blueprint(s) ==
    /\ returned' = [op |-> "remove_blueprint", s |-> s,
                    result |-> IF module = "legacy" THEN legacy_remove_blueprint(s)
                               ELSE remove_blueprint(s)]
    /\ UNCHANGED <<db, connection, all_items, module, resolveNo>>
    /\ ResolveStep

\* Models lines 257-259: insert, commit, reload; MarketData.py lines 233-234:
\* the insert alone, on a connection that does not commit by itself
add_item_alias(item_id, alias) ==
    /\ module # "legacy"
    /\ resolveNo < MaxResolveOps
    /\ resolveNo' = resolveNo + 1
    /\ connection' = [connection EXCEPT !.item_aliases =
                          Append(@, [item_id |-> item_id, alias |-> alias])]
    /\ db' = IF module = "Models" THEN connection' ELSE db
    /\ all_items' = IF module = "Models" THEN Models_get_all_items(connection')
                    ELSE all_items
    /\ returned' = [op |-> "add_item_alias", item_id |-> item_id, alias |-> alias]
    /\ UNCHANGED module
    /\ ResolveStep

\* Models lines 261-263
remove_item_alias(item_id, alias) ==
    /\ module = "Models"
    /\ resolveNo < MaxResolveOps
    /\ resolveNo' = resolveNo + 1
    /\ connection' = [connection EXCEPT !.item_aliases =
                          SelectSeq(@, LAMBDA row : ~(row.item_id = item_id
                                                      /\ row.alias = alias))]
    /\ db' = connection'
    /\ all_items' = Models_get_all_items(connection')
    /\ returned' = [op |-> "remove_item_alias", item_id |-> item_id, alias |-> alias]
    /\ UNCHANGED module
    /\ ResolveStep

\* Models lines 265-266; MarketData.py lines 236-237
add_word_alias(word, alias) ==
    /\ module # "legacy"
    /\ resolveNo < MaxResolveOps
    /\ resolveNo' = resolveNo + 1
    /\ connection' = [connection EXCEPT !.word_aliases =
                          Append(@, [word |-> word, alias |-> alias])]
    /\ db' = IF module = "Models" THEN connection' ELSE db
    /\ returned' = [op |-> "add_word_alias", word |-> word, alias |-> alias]
    /\ UNCHANGED <<all_items, module>>
    /\ ResolveStep

\* the process ends and a new instance connects: __init__, lines 148-155;
\* what the old connection had not committed is gone
restart ==
    /\ module # "legacy"
    /\ resolveNo < MaxResolveOps
    /\ resolveNo' = resolveNo + 1
    /\ connection' = db
    /\ all_items' = IF module = "Models" THEN Models_get_all_items(db)
                    ELSE MarketData_get_all_items(db)
    /\ returned' = [op |-> "__init__"]
    /\ UNCHANGED <<db, module>>
    /\ ResolveStep

\* an instance of one of the modules over a store that has the items, or
\* none, and may hold an alias already
ResolveInit ==
    /\ module \in {"Models", "MarketData", "legacy"}
    /\ \E items \in {<<>>, ItemRows}, item_aliases \in {<<>>} \cup {<<a>> : a \in ItemAliases} :
        /\ db = [items |-> items, word_aliases |-> <<>>,
                 item_aliases |-> IF items = <<>> THEN <<>> ELSE item_aliases]
        /\ connection = db
        /\ all_items = IF module = "Models" THEN Models_get_all_items(db)
                       ELSE MarketData_get_all_items(db)
    /\ returned = [op |-> None]
    /\ resolveNo = 0

ResolveIdle ==
    /\ module = "Models"
    /\ db = [items |-> <<>>, word_aliases |-> <<>>, item_aliases |-> <<>>]
    /\ connection = db
    /\ all_items = <<>>
    /\ returned = [op |-> None]
    /\ resolveNo = 0

ResolveNext ==
    \/ \E item \in Queries : get_item(item)
    \/ \E s \in BlueprintNames : call_remove_blueprint(s)
    \/ \E a \in ItemAliases : add_item_alias(a.item_id, a.alias)
    \/ \E a \in ItemAliases : remove_item_alias(a.item_id, a.alias)
    \/ \E a \in WordAliases : add_word_alias(a.word, a.alias)
    \/ restart

(***************************************************************************)
(* MarketItem.create (market_engine/modules/MarketData.py lines 306-325).  *)
(* get_orders is a coroutine function: calling it makes a coroutine and    *)
(* runs nothing.  get_parts is a plain method (line 438): calling it runs  *)
(* it and gives None, which becomes an entry of tasks.                     *)
(***************************************************************************)
\* database.get_item_parts(item_id): the rows of the item's parts
get_item_parts(item_id) ==
    IF item_id = "set" THEN <<"chassis", "systems">>
    ELSE IF item_id = "pair" THEN <<"blade">>
    ELSE <<>>

IdleObj ==
    [pc |-> "idle", item_id |-> None, fetch_parts |-> FALSE,
     fetch_part_orders |-> FALSE, parts |-> <<>>, part_orders_fetched |-> FALSE,
     tasks |-> <<>>, fetched |-> {}]

\* lines 310-321, up to the call of asyncio.gather
create(item_id, fetch_orders, fetch_parts, fetch_part_orders) ==
    /\ obj.pc \in {"idle", "returned", "raised"}
    /\ createNo < MaxCreates
    /\ createNo' = createNo + 1
    /\ LET parts == IF fetch_parts THEN get_item_parts(item_id) ELSE <<>>
           coroutine(id) == [of |-> id, state |-> "pending"]
       IN  obj' = [IdleObj EXCEPT
                     !.pc = "gather", !.item_id = item_id,
                     !.fetch_parts = fetch_parts,
                     !.fetch_part_orders = fetch_part_orders,
                     !.parts = parts,
                     !.part_orders_fetched = fetch_part_orders,
                     !.tasks =
                         (IF fetch_orders THEN <<coroutine(item_id)>> ELSE <<>>)
                         \o (IF fetch_parts THEN <<[of |-> None, state |-> "None"]>>
                             ELSE <<>>)
                         \o (IF fetch_part_orders
                             THEN [k \in DOMAIN parts |-> coroutine(parts[k])]
                             ELSE <<>>)]
    /\ CreateStep

\* line 323: asyncio.gather(*tasks) with None among tasks raises TypeError
\* ("An asyncio.Future, a coroutine or an awaitable is required") before any
\* of the coroutines has run
create_gather_raises ==
    /\ obj.pc = "gather"
    /\ \E k \in DOMAIN obj.tasks : obj.tasks[k].state = "None"
    /\ obj' = [obj EXCEPT !.pc = "raised"]
    /\ UNCHANGED createNo
    /\ CreateStep

\* lines 431-436: one get_orders of the gather; fetch_wfm_data gives the
\* payload, or None after its attempts, and then nothing is parsed
get_orders(k, payload) ==
    /\ obj.pc = "gather"
    /\ \A j \in DOMAIN obj.tasks : obj.tasks[j].state # "None"
    /\ k \in DOMAIN obj.tasks
    /\ obj.tasks[k].state = "pending"
    /\ obj' = [obj EXCEPT !.tasks[k].state = "done",
                          !.fetched = IF payload THEN @ \cup {obj.tasks[k].of} ELSE @]
    /\ UNCHANGED createNo
    /\ CreateStep

\* lines 323-325: every awaitable is done and create returns obj
create_gather_returns ==
    /\ obj.pc = "gather"
    /\ \A j \in DOMAIN obj.tasks : obj.tasks[j].state = "done"
    /\ obj' = [obj EXCEPT !.pc = "returned"]
    /\ UNCHANGED createNo
    /\ CreateStep

CreateInit ==
    /\ obj = IdleObj
    /\ createNo = 0

CreateNext ==
    \/ \E item_id \in {"set", "pair", "arcane"}, fetch_orders \in BOOLEAN,
          fetch_parts \in BOOLEAN, fetch_part_orders \in BOOLEAN :
          create(item_id, fetch_orders, fetch_parts, fetch_part_orders)
    \/ create_gather_raises
    \/ \E k \in 1..3, payload \in BOOLEAN : get_orders(k, payload)
    \/ create_gather_returns

Init ==
    FetchInit /\ DecodeInit /\ RunIdle /\ IngestInit /\ LoadIdle /\ ResolveIdle
    /\ CreateInit
    /\ utcoffset = 0

SpecFetch == Init /\ [][FetchNext]_vars

SpecLegacy == Init /\ [][LegacyNext]_vars

SpecWfm == Init /\ [][WfmNext]_vars

SpecCreate == Init /\ [][CreateNext]_vars

SpecDecode == Init /\ [][DecodeNext]_vars

\* the trim loop is straight-line code: a pass that can be made is made
SpecDecodeFair == Init /\ [][TrimNext]_vars /\ WF_vars(fix_trim) /\ WF_vars(fix_return)

\* the fetch run starts with any of the translation tables
InitRun ==
    FetchInit /\ DecodeInit /\ RunInit /\ IngestInit /\ LoadIdle /\ ResolveIdle
    /\ CreateInit
    /\ utcoffset = 0

\* the loader runs on a host of any of the offsets, over an empty store
InitLoad ==
    /\ FetchInit /\ DecodeInit /\ RunIdle /\ IngestInit /\ LoadIdle /\ ResolveIdle
    /\ CreateInit
    /\ utcoffset \in HostOffsets

SpecRun == InitRun /\ [][RunNext]_vars

SpecIngest == InitRun /\ [][IngestNext]_vars

SpecLoad == InitLoad /\ [][IngestAndLoadNext]_vars

\* an instance of MarketDatabase of any of the modules
InitResolve ==
    FetchInit /\ DecodeInit /\ RunIdle /\ IngestInit /\ LoadIdle /\ ResolveInit
    /\ CreateInit
    /\ utcoffset = 0

SpecResolve == InitResolve /\ [][ResolveNext]_vars

(***************************************************************************)
(* The fetch layer's properties.                                           *)
(***************************************************************************)
CommonCalls == {t \in Tasks : calls[t].variant = "common"}

\* C1: once a fetch of (url, headers) with a cache attached has completed and
\* stored its payload, a later fetch_api_data call for the same url and
\* headers made before the entry expires returns the cached payload, issues
\* no HTTP request and does not acquire the rate limiter.
C1_CachedFetchIssuesNoRequest ==
    \A t \in CommonCalls :
        calls[t].afterStored =>
            /\ calls[t].pc = "done"
            /\ calls[t].hit
            /\ calls[t].attempts = 0
            /\ calls[t].acquires = 0

\* C2: the value fetch_api_data returns on a cache hit equals the value
\* returned by the call that fetched and stored that entry.
C2_CacheRoundTrip ==
    \A t \in Tasks :
        (calls[t].pc = "done" /\ calls[t].hit) => calls[t].ret = calls[t].origin

\* C4: every HTTP request of a fetch_api_data call is issued only after the
\* call has acquired a token from the rate limiter.
C4_RequestOnlyAfterAcquire ==
    \A t \in CommonCalls :
        calls[t].attempts > 0 => calls[t].acquires > 0

\* C5: a fetch_api_data call (market_engine/common.py) issues at most 5
\* request attempts with a fixed delay of 1 between consecutive attempts, and
\* a call whose attempts all failed ends after the 5th by failing, without
\* returning a payload.
C5_RetryCeiling ==
    \A t \in CommonCalls :
        LET c == calls[t] IN
        /\ c.attempts <= MaxAttemptNumber
        /\ \A i \in DOMAIN c.waits : c.waits[i] = WaitFixed
        /\ c.pc = "request" => Len(c.waits) = c.attempts
        /\ (c.pc \in {"wait", "failed"} \/ (c.pc = "done" /\ ~c.hit))
               => Len(c.waits) = c.attempts - 1
        /\ c.pc = "wait" => c.fails = c.attempts
        /\ c.pc = "failed" =>
               c.attempts = MaxAttemptNumber /\ c.fails = c.attempts /\ c.ret = None
        /\ (c.pc = "done" /\ ~c.hit) =>
               c.fails = c.attempts - 1 /\ c.ret = JsonOf(c.url)

C5_Witness ==
    \E t \in CommonCalls :
        /\ calls[t].pc = "failed"
        /\ calls[t].fails = MaxAttemptNumber
        /\ Len(calls[t].waits) = MaxAttemptNumber - 1

\* C6: a fetch_api_data call of modules/MarketAPI.py whose requests are all
\* answered with an error status stops after the fixed number of attempts
\* (the ceiling of 5) and fails.
C6_LegacyStopsAtCeiling ==
    \A t \in Tasks :
        calls[t].variant = "legacy" =>
            /\ calls[t].attempts <= MaxAttemptNumber
            /\ (calls[t].fails = MaxAttemptNumber /\ calls[t].attempts = calls[t].fails)
                   => calls[t].pc = "failed"

(***************************************************************************)
(* The decoder's properties.  The valid part of a buffer is its longest    *)
(* prefix made of whole streams, found by reading the stream format        *)
(* directly.                                                               *)
(***************************************************************************)
\* the index of the E closing the stream that starts at i, or 0
RECURSIVE StreamEnd(_, _)
StreamEnd(data, i) ==
    IF i > Len(data) THEN 0
    ELSE IF data[i] = "E" THEN i
    ELSE IF data[i] \in Payload THEN StreamEnd(data, i + 1)
    ELSE 0

\* <<number of whole streams at the start, their content, the rest>>
RECURSIVE WholeStreams(_, _, _)
WholeStreams(data, n, content) ==
    LET e == IF data # <<>> /\ data[1] = "H" THEN StreamEnd(data, 2) ELSE 0 IN
    IF e = 0 THEN <<n, content, data>>
    ELSE WholeStreams(From(data, e + 1), n + 1,
             content \o [i \in 1..(e - 2) |-> Plain(data[i + 1])])

ValidStreams(data) == WholeStreams(data, 0, <<>>)[1]
ValidContent(data) == WholeStreams(data, 0, <<>>)[2]
TrailingBytes(data) == WholeStreams(data, 0, <<>>)[3]

fixDone == fixpc \in {"returned", "raised"} /\ byt # <<>>

\* C7: for a buffer made of a valid compressed stream followed by 0 to N
\* trailing corrupted bytes, fix returns exactly the decompressed content of
\* the valid stream.
C7_ValidStreamThenGarbage ==
    (fixDone /\ ValidStreams(byt) >= 1) =>
        /\ fixpc = "returned"
        /\ fixret = decode_utf8(ValidContent(byt))

NoPrefixDecodes(data) ==
    /\ data # <<>>
    /\ \A n \in 1..Len(data) : decompress_lzma(Slice(data, n)).err

\* C8: for a buffer corrupted from byte 0, so that no non-empty prefix
\* decodes, fix fails with a decode error and returns no payload.
C8_CorruptFromStartFails ==
    (fixDone /\ NoPrefixDecodes(byt)) => fixpc = "raised"

\* the records process_price_history files for one item alone
RecordsOf(item) ==
    LET price_history == Statistics(item.url_name)
        closed == ProcessPoints(price_history.statistics_closed, 1, item, EmptyMap)
    IN  ProcessPoints(price_history.statistics_live, 1, item, closed.dict).dict

Holds(dict, item) ==
    \A date \in DOMAIN RecordsOf(item) : \A n \in DOMAIN RecordsOf(item)[date] :
        /\ date \in DOMAIN dict
        /\ n \in DOMAIN dict[date]
        /\ \A k \in DOMAIN RecordsOf(item)[date][n] :
              \E j \in DOMAIN dict[date][n] :
                  dict[date][n][j] = RecordsOf(item)[date][n][k]

gatherOver == runpc \in {"gather_raised", "save"}

\* C9: when the statistics fetch of one item fails during aggregation, the
\* aggregation is not aborted: it ends by returning the mapping, and the
\* mapping holds the records of every item whose fetch succeeded.
C9_FailedItemIsSkipped ==
    (gatherOver /\ \E item \in Catalog : tasks[item] = "fetch_failed") =>
        /\ runpc = "save"
        /\ \A item \in Catalog :
              tasks[item] = "done" => Holds(price_history_dict, item)

\* every record of the file carries an item_id
Stamped(history_file) ==
    \A n \in DOMAIN history_file : \A k \in DOMAIN history_file[n] :
        history_file[n][k].item_id # Absent

\* a step of a fetch run that follows a run that ran to its end
laterRunStep ==
    /\ runsCompleted >= 1
    /\ runpc # "idle" \/ runNo' > runNo

\* C10: a second fetch run against the unchanged upstream leaves every
\* existing per-date artifact as it is and creates no artifact: no step of a
\* later run changes an artifact the earlier runs left complete.
C10_LaterRunKeepsArtifacts ==
    [][ laterRunStep =>
          /\ \A d \in DOMAIN artifacts :
                Stamped(artifacts[d]) =>
                    d \in DOMAIN artifacts' /\ artifacts'[d] = artifacts[d]
          /\ DOMAIN artifacts' = DOMAIN artifacts ]_vars

\* C12: a record whose (translated) item name is absent from the catalog,
\* with or without a subtype field, gets a fallback identifier: no KeyError
\* ends build_item_ids or an item's coroutine, so the run is not aborted.
C12_UnknownNameGetsFallback ==
    /\ runpc # "build_raised"
    /\ \A item \in Catalog : tasks[item] # "KeyError"

\* C14: item identifiers are immutable across runs: the identifier
\* build_item_ids gives a name is the one the run before gave it, and an
\* item_id stamped on a record of an artifact is never replaced by another.
C14_IdentifiersImmutable ==
    [][ /\ \A n \in DOMAIN item_ids \cap DOMAIN item_ids' :
              item_ids'[n] = item_ids[n]
        /\ \A d \in DOMAIN artifacts \cap DOMAIN artifacts' :
              \A n \in DOMAIN artifacts[d] \cap DOMAIN artifacts'[d] :
                  \A k \in DOMAIN artifacts[d][n] \cap DOMAIN artifacts'[d][n] :
                      artifacts[d][n][k].item_id # Absent =>
                          artifacts'[d][n][k].item_id = artifacts[d][n][k].item_id
      ]_vars

\* C13: get_item_id is deterministic and catalog-first: for a name present
\* in item_ids it returns the catalog identifier; for a name absent from
\* item_ids the identifier depends on the name alone, so two calls with the
\* same name, in one ingestion or in two, return the same identifier.
C13_GetItemIdDeterministic ==
    /\ \A c \in idCalls :
          c.item_name \in DOMAIN c.item_ids => c.ret = c.item_ids[c.item_name]
    /\ \A c1, c2 \in idCalls :
          (/\ c1.item_name = c2.item_name
           /\ c1.item_name \notin DOMAIN c1.item_ids
           /\ c2.item_name \notin DOMAIN c2.item_ids) => c1.ret = c2.ret

\* a catalog name has been resolved, and an absent name in two ingestions
\* with different item_ids
C13_Witness ==
    /\ \E c \in idCalls : c.item_name \in DOMAIN c.item_ids
    /\ \E c1, c2 \in idCalls :
          /\ c1.item_name = c2.item_name
          /\ c1.item_ids # c2.item_ids
          /\ c1.item_name \notin DOMAIN c1.item_ids
          /\ c2.item_name \notin DOMAIN c2.item_ids

\* the points the sources serve, before any path has touched them
SourcePoints ==
    UNION {UNION {{RelicsFiles[d][n][k] : k \in DOMAIN RelicsFiles[d][n]}
                     : n \in DOMAIN RelicsFiles[d]} : d \in DOMAIN RelicsFiles}

SourceOf(row) == CHOOSE p \in SourcePoints : p.of = row.of

\* C11: a statistic record whose source lacks the order_type field has the
\* one canonical order_type "closed" when it is in the store, whichever path
\* brought it there.
C11_MissingOrderTypeIsClosed ==
    \A k \in DOMAIN item_statistics :
        SourceOf(item_statistics[k]).order_type = Absent =>
            item_statistics[k].order_type = "closed"

Range(seq) == {seq[k] : k \in DOMAIN seq}

\* the calendar day of the latest record among the rows, from the sources
LatestDay(rows) ==
    CHOOSE n \in {DayNumber(SourceOf(rows[k]).datetime[1]) : k \in DOMAIN rows} :
        \A k \in DOMAIN rows : DayNumber(SourceOf(rows[k]).datetime[1]) <= n

C16_AllOrNothing ==
    /\ load.commits <= 1
    /\ load.commits = 1 => load.i >= Len(load.values)
    /\ loadpc \in {"derive", "commit", "done"} => load.commits = 1
    /\ (loadpc \in {"raised", "interrupted"} /\ load.commits = 0) =>
          /\ item_statistics = load.before
          /\ tx = load.before

\* a batch of new rows went in, and a later batch raised
C16_Witness ==
    /\ loadpc = "raised"
    /\ load.commits = 0
    /\ load.i > 0
    /\ load.before = <<>>

DateLe(d1, d2) == d1 = NoDate \/ (d2 # NoDate /\ d1[1] <= d2[1])

AlreadyLoaded ==
    \A k \in DOMAIN load.values : NaturalKey(load.values[k].row) \in Keys(load.before)

BatchOf(k) == (k - 1) \div batch_size

\* C19: the records of a loader run are applied in increasing date order: a
\* record of an earlier artifact goes in the same or an earlier batch than a
\* record of a later artifact.
C19_BatchesInDateOrder ==
    \A k1, k2 \in 1..Min(load.i, Len(load.values)) :
        DayNumber(load.values[k1].file) < DayNumber(load.values[k2].file) =>
            BatchOf(k1) <= BatchOf(k2)

\* C20: after every successful loader run, incremental or full reload, the
\* secondary tables hold every distinct (item_id, sub-type) and (item_id,
\* mod_rank) with a value in item_statistics.
C20_SecondaryTablesDerived ==
    loadpc = "done" =>
        /\ Distinct(item_statistics, "subtype") \subseteq item_subtypes
        /\ Distinct(item_statistics, "mod_rank") \subseteq item_mod_ranks

(***************************************************************************)
(* The identity resolver's properties.                                     *)
(***************************************************************************)
\* C21: _get_fuzzy_item hands back the best-scoring item when the best
\* score is greater than 50, and None when it is 50 or less, the empty
\* catalog included.
C21_AcceptAboveFifty ==
    (returned.op = "_get_fuzzy_item" /\ ~returned.found.raised) =>
        /\ returned.found.best_score > 50 =>
               returned.result = returned.found.best_item /\ returned.result # NoItem
        /\ returned.found.best_score <= 50 => returned.result = NoItem
        /\ returned.all_items = <<>> => returned.result = NoItem

\* a query whose best score is exactly 50 was answered with None
C21_Witness ==
    /\ returned.op = "_get_fuzzy_item" /\ ~returned.found.raised
    /\ returned.found.best_score = 50
    /\ returned.found.best_item # NoItem
    /\ returned.result = NoItem

\* C22: for every query and catalog, _get_fuzzy_item returns an item or
\* None and raises nothing.
C22_MissIsAValue ==
    returned.op = "_get_fuzzy_item" => ~returned.found.raised

\* the result remove_blueprint is to have on a name
ExpectedWithoutBlueprint(s) ==
    LET words == split(lower(s))
        n == Len(words)
    IN  IF n >= 2 /\ words[n] = W.blueprint
           /\ words[n - 1] \notin {W.prime, W.wraith, W.vandal}
        THEN join(SubSeq(words, 1, n - 1))
        ELSE lower(s)

\* C30: remove_blueprint drops a trailing "blueprint" of a name of two or
\* more words exactly when the word before it is none of prime, wraith
\* and vandal, and hands back every other name lower-cased and whole.
C30_RemoveBlueprint ==
    returned.op = "remove_blueprint" =>
        returned.result = ExpectedWithoutBlueprint(returned.s)

\* the best score of a word over the aliases of a dict, 0 for an empty dict
BestAliasScore(word, dict) ==
    LET scores == {ratio(word, dict[j][1]) : j \in DOMAIN dict} \cup {0}
    IN  CHOOSE m \in scores : \A x \in scores : x <= m

\* C29: replace_aliases replaces a word by the target of its best-scoring
\* alias when that score is at least 80 and keeps it otherwise; the number
\* and the order of the words are kept.
C29_BestAliasReplaces ==
    returned.op = "_get_fuzzy_item" =>
        LET words == split(returned.item_name)
            out == split(returned.replaced)
            dict == returned.word_aliases
        IN  /\ Len(out) = Len(words)
            /\ \A k \in DOMAIN words :
                   IF BestAliasScore(words[k], dict) >= 80
                   THEN \E j \in DOMAIN dict :
                           /\ ratio(words[k], dict[j][1]) = BestAliasScore(words[k], dict)
                           /\ out[k] = dict[j][2]
                   ELSE out[k] = words[k]

\* C23: every alias stored for an item takes part in its score; a query
\* equal to an alias stored for an item of the catalog scores 100.
C23_StoredAliasScoresPerfect ==
    (returned.op = "_get_fuzzy_item" /\ ~returned.found.raised) =>
        \A k \in DOMAIN connection.item_aliases :
            (/\ connection.item_aliases[k] \in Range(db.item_aliases)
             /\ connection.item_aliases[k].alias = returned.item_name
             /\ \E i \in DOMAIN db.items :
                    db.items[i].id = connection.item_aliases[k].item_id)
            => returned.found.best_score = 100

\* the aliases the instance scores for an item
AliasesInUse(item_id) ==
    UNION {Range(get_item_names(all_items[i])) \ {all_items[i].item_name} :
              i \in {j \in DOMAIN all_items : all_items[j].id = item_id}}

\* C24: once add_item_alias or add_word_alias has returned, the alias is
\* committed and the instance's lookups use it; once remove_item_alias has
\* returned, they do not.
C24_LearnedAliasInUse ==
    /\ returned.op = "add_item_alias" =>
           /\ [item_id |-> returned.item_id, alias |-> returned.alias]
                  \in Range(db.item_aliases)
           /\ (\E i \in DOMAIN all_items : all_items[i].id = returned.item_id)
                  => returned.alias \in AliasesInUse(returned.item_id)
    /\ returned.op = "add_word_alias" =>
           /\ [word |-> returned.word, alias |-> returned.alias]
                  \in Range(db.word_aliases)
           /\ <<returned.alias, returned.word>>
                  \in Range(IF module = "Models" THEN get_word_aliases(connection)
                            ELSE aliases)
    /\ returned.op = "remove_item_alias" =>
           returned.alias \notin AliasesInUse(returned.item_id)

(***************************************************************************)
(* The aggregation's and the loader's further properties.                  *)
(***************************************************************************)
\* the mapping process_price_history builds when the coroutines of the
\* items complete one after the other in the given order
RECURSIVE GatherInOrder(_, _, _)
GatherInOrder(items, i, dict) ==
    IF i > Len(items) THEN dict
    ELSE LET price_history == Statistics(items[i].url_name)
             closed == ProcessPoints(price_history.statistics_closed, 1, items[i], dict)
             live == ProcessPoints(price_history.statistics_live, 1, items[i], closed.dict)
         IN  GatherInOrder(items, i + 1, live.dict)

CatalogInOrder ==
    LET names == KeysInOrder(NameOrder, 1, {j.item_name : j \in Catalog})
    IN  [k \in DOMAIN names |-> CHOOSE i \in Catalog : i.item_name = names[k]]

\* C26: for a fixed catalog, translation table and responses, every
\* completion order of the items' fetches gives the same mapping
\* date -> item name -> records.
C26_BucketsOrderIndependent ==
    runpc = "save" => price_history_dict = GatherInOrder(CatalogInOrder, 1, EmptyMap)

\* C25: after a run aborted at any point, every artifact that exists is
\* complete, so the next run neither skips a partly written date nor fails
\* on it.
C25_ArtifactsComplete ==
    \A day \in DOMAIN artifacts : artifacts[day] # PartlyWritten

\* C27: the batches handed to executemany are consecutive slices of the
\* record list whose concatenation is the list, each of at most batch_size
\* records and each but the last of exactly batch_size; there are
\* ceil(n / batch_size) of them, none for the empty list.
C27_Batching ==
    LET n == Len(load.values)
        done == Len(load.batches)
    IN  /\ FlattenSeq(load.batches, 1) = SubSeq(load.values, 1, Min(load.i, n))
        /\ \A b \in DOMAIN load.batches :
               /\ Len(load.batches[b]) <= batch_size
               /\ Len(load.batches[b]) >= 1
               /\ b < done => Len(load.batches[b]) = batch_size
        /\ (loadpc \in {"derive", "commit", "done"}) =>
               /\ done = (n + batch_size - 1) \div batch_size
               /\ FlattenSeq(load.batches, 1) = load.values
               /\ n = 0 => load.batches = <<>>

\* a run has inserted its records in two batches or more, the last one short
C27_Witness ==
    /\ loadpc = "done"
    /\ Len(load.batches) >= 2
    /\ Len(load.batches[Len(load.batches)]) < batch_size

\* C28: the columns of the insert are the union of the fields of the
\* records after order_type has its default: for a list that is not empty
\* order_type is among them, and no row has NULL for it.
C28_OrderTypeAmongColumns ==
    load.values # <<>> =>
        /\ "order_type" \in load.all_columns
        /\ \A k \in DOMAIN load.values : load.values[k].row.order_type # NULL

\* the score of one item against the cleaned query (lines 69-70)
ItemScore(name, item) ==
    LET names == get_item_names(item)
        scores == {ratio(name, remove_common_words(names[n], common_words)) :
                      n \in DOMAIN names}
    IN  CHOOSE m \in scores : \A x \in scores : x <= m

\* the scan of lines 68-72 over every item, without the break of lines 74-75
RECURSIVE FullScan(_, _, _, _, _)
FullScan(name, items, k, best_score, best_item) ==
    IF k > Len(items) THEN [best_score |-> best_score, best_item |-> best_item]
    ELSE IF ItemScore(name, items[k]) > best_score
    THEN FullScan(name, items, k + 1, ItemScore(name, items[k]), items[k])
    ELSE FullScan(name, items, k + 1, best_score, best_item)

CleanedQuery(call) ==
    remove_common_words(replace_aliases(call.item_name, call.word_aliases), common_words)

\* C31: the break on a perfect score does not change the result of
\* find_best_match: the score and item it returns are those of a scan of the
\* whole list, that is the first item in catalog order that attains the maximum
\* score, or (0, None) when no item scores above 0.
C31_BreakKeepsResult ==
    (returned.op = "_get_fuzzy_item" /\ ~returned.found.raised) =>
        LET name == CleanedQuery(returned)
            items == returned.all_items
            full == FullScan(name, items, 1, 0, NoItem)
            found == [best_score |-> returned.found.best_score,
                      best_item |-> returned.found.best_item]
            top == IF items = <<>> THEN 0
                   ELSE CHOOSE m \in {ItemScore(name, items[k]) : k \in DOMAIN items} :
                            \A k \in DOMAIN items : ItemScore(name, items[k]) <= m
        IN  /\ found = full
            /\ found.best_score = top
            /\ IF top = 0 THEN found.best_item = NoItem
               ELSE \E k \in DOMAIN items :
                        /\ found.best_item = items[k]
                        /\ ItemScore(name, items[k]) = top
                        /\ \A j \in 1..(k - 1) : ItemScore(name, items[j]) < top

\* a perfect score on the first item while the second, never scanned, is perfect too
C31_Witness ==
    /\ returned.op = "_get_fuzzy_item"
    /\ ~returned.found.raised
    /\ Len(returned.all_items) = 2
    /\ returned.found.best_score = 100
    /\ returned.found.best_item = returned.all_items[1]
    /\ ItemScore(CleanedQuery(returned), returned.all_items[2]) = 100
\* the buffer the trim loop of fix hands to decompress_lzma
Candidate == Slice(byt, length)

C34_FailedDateIsSkipped ==
    ingest.failed # {} =>
        /\ ingestpc \notin {"raised", "aborted"}
        /\ ingestpc = "idle" =>
               \A date \in ingest.requested \ ingest.failed : date \in DOMAIN artifacts
        /\ \A date \in ingest.failed : date \notin DOMAIN artifacts
WfmCalls == {t \in Tasks : calls[t].variant = "wfm" /\ ~calls[t].hit}

WfmCounts ==
    \A t \in WfmCalls :
        LET c == calls[t] IN
        /\ c.attempts <= retries
        /\ c.acquires = IF c.pc = "request" THEN c.attempts + 1 ELSE c.attempts
        /\ (c.pc = "done" /\ c.fails = c.attempts) =>
               c.attempts = retries /\ c.ret = None
        /\ (c.pc = "done" /\ c.fails < c.attempts) =>
               c.fails = c.attempts - 1 /\ c.ret = JsonOf(c.url)
        /\ c.pc \in {"acquire", "request", "done"}

\* C35: fetch_wfm_data on a cache miss makes at most 3 request attempts,
\* acquires the rate limiter once for each attempt, stores the payload in the
\* cache at the first 200 response and returns it, and returns None without
\* raising when every attempt failed with another status or a client error.
C35_WfmAttempts ==
    [][/\ WfmCounts'
       /\ \A t \in Tasks :
             (calls[t].variant = "wfm" /\ calls[t].pc = "request"
                  /\ calls'[t].pc = "done" /\ calls'[t].ret # None)
                 => (calls[t].url \in DOMAIN cache'
                     /\ cache'[calls[t].url] = json_dumps(calls'[t].ret))]_vars

\* a call whose three attempts all failed, and a call that succeeded at its
\* third attempt
C35_Witness ==
    /\ \E t \in WfmCalls : calls[t].pc = "done" /\ calls[t].fails = retries
    /\ \E t \in WfmCalls : calls[t].pc = "done" /\ calls[t].ret # None
                              /\ calls[t].attempts = retries
\* the records of an artifact as the loader reads them
RecordsIn(file) == get_data_list(<<file>>, artifacts)

InStore(data) ==
    \E j \in DOMAIN item_statistics :
        /\ item_statistics[j].item_id = Get(data, "item_id")
        /\ item_statistics[j].datetime = StoredDatetime(data.datetime)

\* C36: no artifact is left unloaded: after a successful incremental loader
\* run every record of every artifact that was on disk when the run started is
\* in the store, also when the artifact is of a date not later than the
\* checkpoint and was written after the checkpoint had passed that date.
C36_NoArtifactLeftUnloaded ==
    (loadpc = "done" /\ ~load.database) =>
        \A file \in load.listed :
            \A k \in DOMAIN RecordsIn(file) : InStore(RecordsIn(file)[k].data)
\* C37: the trim loop of fix ends for every buffer: each failed attempt takes
\* one off the candidate length, the length never goes below 0, and the loop
\* stops at the first length whose prefix decodes.
C37_TrimLoopTerminates ==
    /\ [](length >= 0 /\ length <= Len(byt))
    /\ [][(fixpc = "loop" /\ length' # length) =>
              (length' = length - 1 /\ decompress_lzma(Slice(byt, length)).err)]_vars
    /\ [](fixpc \in {"returned", "raised"} =>
              /\ ~decompress_lzma(Slice(byt, length)).err
              /\ \A n \in (length + 1)..Len(byt) : decompress_lzma(Slice(byt, n)).err)
    /\ (fixpc = "loop") ~> (fixpc \in {"returned", "raised"})

\* the loop trimmed a buffer by more than one byte and stopped above 0
C37_Witness ==
    /\ fixpc = "returned"
    /\ length > 0
    /\ length + 1 < Len(byt)
\* the name a source name is resolved to: one look in the translation table
Translated(item_name) ==
    IF item_name \in DOMAIN translation_dict THEN translation_dict[item_name]
    ELSE item_name

\* C38: fix_names_and_add_ids gives all the records listed under one source
\* item name the same item_id, that of the name's translation (of the name
\* itself when it has none), whatever the translation table, also when a
\* translated name is itself a key of the table.
C38_OneIdPerSourceName ==
    \A date \in DOMAIN artifacts : \A item_name \in DOMAIN artifacts[date] :
        \E ids \in IdMaps :
            \A k \in DOMAIN artifacts[date][item_name] :
                artifacts[date][item_name][k].item_id
                    = get_item_id(Translated(item_name), ids)
\* C39: MarketItem.create with fetch_parts and fetch_part_orders both true
\* returns, and when it returns the item's parts have been loaded, get_orders
\* has been run for every part, and part_orders_fetched is true only if the
\* orders of every part in obj.parts were fetched.
C39_CreateFetchesPartOrders ==
    (obj.fetch_parts /\ obj.fetch_part_orders) =>
        /\ obj.pc # "raised"
        /\ obj.pc = "returned" =>
              /\ obj.parts = get_item_parts(obj.item_id)
              /\ \A k \in DOMAIN obj.parts :
                    \E j \in DOMAIN obj.tasks :
                        obj.tasks[j] = [of |-> obj.parts[k], state |-> "done"]
              /\ obj.part_orders_fetched =>
                    \A k \in DOMAIN obj.parts : obj.parts[k] \in obj.fetched
=============================================================================
